---- MODULE Spec2Model ----
(***************************************************************************)
(* Connection & credential lifecycle of juncture-core-server: the OAuth     *)
(* handlers (initiate, callback), the Jira finalize step, the connection    *)
(* store with its redis cache-aside helpers and the access-token refresh    *)
(* broker.  The authorization flow is modelled in both deployment modes     *)
(* (cloudMode); the multi-tenant collaborator, an interface in the source,  *)
(* behaves as the design document describes it.  The backend-facing         *)
(* handlers are modelled in single-tenant (OSS) mode.                       *)
(*                                                                         *)
(* Every HTTP request runs in a slot of Reqs.  A handler is cut at the      *)
(* awaits where another request can observe or change shared state (the    *)
(* postgres transaction, the redis writes issued after it, the provider    *)
(* call); steps between two such awaits are one action.  Calls the code    *)
(* does not await (redis.set(...).catch, updateConnectionInDB(...) after a  *)
(* refresh) are later steps of the same slot that run after the response.  *)
(*                                                                         *)
(* Time is in seconds.  createdAt / lastUpdated columns are not modelled:   *)
(* no handler reads them.  Neither is the marker the callback writes under *)
(* the bare access token (storeAccessToken): nothing reads that key.        *)
(*                                                                         *)
(* The callback commits the connection as authorizationCallback does; the  *)
(* handoff code it issues afterwards (CallbackHandoffBody) follows the     *)
(* design document, the payload being absent from the controller source.   *)
(***************************************************************************)
EXTENDS Naturals, Integers, FiniteSets, Sequences, TLC

\* ------------------------------------------------------------------ bounds
MaxConn == 2         \* connection ids crypto.randomUUID() hands out
MaxNonce == 1        \* state nonces crypto.randomUUID() hands out
MaxCode == 2         \* handoff codes crypto.randomUUID() hands out
MaxTok == 2          \* token pairs the provider issues
MaxTick == 1         \* clock jumps

\* ------------------------------------------------------- program constants
ConnectionLifetime == 31449600   \* 364 days, in seconds
AccessTokenSkew == 300           \* safety skew of a refreshed access token
InvalidGrantStatus == 403        \* status of the provider's invalid_grant reply

Year == 365 * 24 * 60 * 60       \* one clock jump: longer than a lifetime

Reqs == {1, 2}
Providers == {"jira"}                  \* providerEnum
ProviderInputs == {"jira", "github"}   \* what a caller may send as provider
ExternalIds == {"e1", "e2"}
Undef == "undefined"                   \* a field read off a value that lacks it
Sites == {"site-9"}
ExpiresInValues == {3600, 200}         \* expires_in the provider may report

ConnIds == 1..MaxConn
Nonces == 1..(MaxNonce + 1)
Codes == 1..MaxCode
Toks == 1..MaxTok

VARIABLES
    connection,             \* table connection
    connectionExternalMap,  \* table connection_external_map
    jiraConnection,         \* table jira_connection
    stateCache,             \* redis: <state>                      -> body
    connIdCache,            \* redis: connection_id:<prov>:<ext>   -> id
    detailsCache,           \* redis: connection_details:<id>      -> JSON row
    accessTokenCache,       \* redis: access_token:<id>            -> token
    codeCache,              \* redis: connection_code:<prov>:<code>-> body
    jiraCache,              \* redis: jira_connection_details:<id> -> body
    nextUUID,               \* crypto.randomUUID(): ids handed out so far
    issued,                 \* provider: token pairs issued so far
    now,                    \* Date.now(), seconds
    consumed,               \* history: handoff codes a finalize has deleted
    req,                    \* the request slots: the requests in flight
    out,                    \* the response the last step sent, if it sent one
    redis,                  \* how redis behaves: "flaky", "up" or "down"
    marked,                 \* history: per connection, the number of grants
                            \* issued when it was last marked invalid (0: never)
    rotated,                \* history: per connection, the refresh token the
                            \* provider issued in its latest refresh (0: none)
    accessTokenTTL,         \* redis: the EX each access_token:<id> key was set
                            \* with (0: no key)
    cloudMode,              \* process.env.CLOUD_MODE === 'true'
    projectConnectionMap    \* juncture-cloud.ProjectConnectionMap, the
                            \* collaborator's ownership rows

dbVars == <<connection, connectionExternalMap, jiraConnection,
           projectConnectionMap>>
cacheVars == <<stateCache, connIdCache, detailsCache, accessTokenCache,
               accessTokenTTL, codeCache, jiraCache>>
vars == <<connection, connectionExternalMap, jiraConnection, stateCache,
          connIdCache, detailsCache, accessTokenCache, codeCache, jiraCache,
          nextUUID, issued, now, consumed, req, out, redis, marked,
          rotated, cloudMode, projectConnectionMap, accessTokenTTL>>

\* ================================================================ postgres
\* The tables as one value, so that a transaction is a function of it.
DB == [connection |-> connection, map |-> connectionExternalMap,
       jira |-> jiraConnection, owner |-> projectConnectionMap]

ConnRow(id, tok, exp, inv) ==
    [connectionId |-> id, refreshToken |-> tok, expiresAt |-> exp,
     invalidRefreshToken |-> inv]
MapRow(ext, prov, id) ==
    [externalId |-> ext, provider |-> prov, connectionId |-> id]
JiraRow(id, site, proj) ==
    [connectionId |-> id, jiraSiteId |-> site, selectedJiraProjectId |-> proj]
ProjectRow(project, ext, prov, id) ==
    [projectId |-> project, externalId |-> ext, provider |-> prov,
     connectionId |-> id]

\* A transaction in flight: ok = FALSE once a statement has thrown.
Tx(db) == [ok |-> TRUE, db |-> db]
Throw(tx) == [tx EXCEPT !.ok = FALSE]

HasConnection(db, id) == \E c \in db.connection : c.connectionId = id

\* INSERT INTO connection: connection_id is the primary key.
InsertConnection(tx, row) ==
    IF ~tx.ok THEN tx
    ELSE IF HasConnection(tx.db, row.connectionId) THEN Throw(tx)
    ELSE [tx EXCEPT !.db.connection = @ \cup {row}]

\* connection_external_map without its primary key.
MapKeyTaken_NoKey(db, row) == FALSE

\* The composite primary key of connection_external_map.
MapKeyTaken(db, row) ==
    \E m \in db.map : m.externalId = row.externalId /\ m.provider = row.provider

\* INSERT INTO connection_external_map: NOT NULL columns, the composite
\* primary key (external_id, provider), the foreign key to connection.
InsertExternalMap(tx, row) ==
    IF ~tx.ok THEN tx
    ELSE IF row.externalId = Undef THEN Throw(tx)
    ELSE IF MapKeyTaken(tx.db, row) THEN Throw(tx)
    ELSE IF ~HasConnection(tx.db, row.connectionId) THEN Throw(tx)
    ELSE [tx EXCEPT !.db.map = @ \cup {row}]

\* INSERT INTO jira_connection: primary key connection_id, foreign key to
\* connection; selected_jira_project_id is nullable.
InsertJiraConnection(tx, row) ==
    IF ~tx.ok THEN tx
    ELSE IF \E j \in tx.db.jira : j.connectionId = row.connectionId THEN Throw(tx)
    ELSE IF ~HasConnection(tx.db, row.connectionId) THEN Throw(tx)
    ELSE [tx EXCEPT !.db.jira = @ \cup {row}]

\* INSERT INTO ProjectConnectionMap(project_id, external_id, provider,
\* connection_id): one row per (project_id, external_id, provider), for a
\* connection that exists.
InsertProjectConnection(tx, row) ==
    IF ~tx.ok THEN tx
    ELSE IF row.projectId = Undef \/ row.externalId = Undef THEN Throw(tx)
    ELSE IF \E o \in tx.db.owner : /\ o.projectId = row.projectId
                                   /\ o.externalId = row.externalId
                                   /\ o.provider = row.provider THEN Throw(tx)
    ELSE IF ~HasConnection(tx.db, row.connectionId) THEN Throw(tx)
    ELSE [tx EXCEPT !.db.owner = @ \cup {row}]

\* UPDATE jira_connection SET jira_site_id WHERE connection_id = id.
UpdateJiraSite(tx, id, site) ==
    IF ~tx.ok THEN tx
    ELSE [tx EXCEPT !.db.jira =
            {IF j.connectionId = id THEN [j EXCEPT !.jiraSiteId = site] ELSE j
                : j \in @}]

\* An update that gives the row it touches another connection id.
UpdateConnection_Rekey(tx, id, tok, exp) ==
    IF ~tx.ok THEN tx
    ELSE [tx EXCEPT !.db.connection =
            {IF c.connectionId = id
                THEN [c EXCEPT !.connectionId = (id % MaxConn) + 1,
                               !.refreshToken = tok, !.expiresAt = exp]
                ELSE c : c \in @}]

\* An update that also takes the invalid flag off.
UpdateConnection_ClearsFlag(tx, id, tok, exp) ==
    IF ~tx.ok THEN tx
    ELSE [tx EXCEPT !.db.connection =
            {IF c.connectionId = id
                THEN [c EXCEPT !.refreshToken = tok, !.expiresAt = exp,
                               !.invalidRefreshToken = FALSE]
                ELSE c : c \in @}]

\* An update that leaves the refresh token as it is.
UpdateConnection_KeepToken(tx, id, tok, exp) ==
    IF ~tx.ok THEN tx
    ELSE [tx EXCEPT !.db.connection =
            {IF c.connectionId = id THEN [c EXCEPT !.expiresAt = exp]
                ELSE c : c \in @}]

\* UPDATE connection SET refresh_token, expires_at WHERE connection_id = id.
UpdateConnection(tx, id, tok, exp) ==
    IF ~tx.ok THEN tx
    ELSE [tx EXCEPT !.db.connection =
            {IF c.connectionId = id
                THEN [c EXCEPT !.refreshToken = tok, !.expiresAt = exp]
                ELSE c : c \in @}]

\* UPDATE connection SET invalid_refresh_token WHERE connection_id = id.
UpdateInvalid(tx, id, isInvalid) ==
    IF ~tx.ok THEN tx
    ELSE [tx EXCEPT !.db.connection =
            {IF c.connectionId = id
                THEN [c EXCEPT !.invalidRefreshToken = isInvalid]
                ELSE c : c \in @}]

\* The rows .returning() hands back for connection_id = id.
Returning(tx, id) == {c \in tx.db.connection : c.connectionId = id}

\* ======================================================= connection store
Null == "null"
NoRow == ConnRow(0, 0, 0, FALSE)

\* The unit of work a caller hands to the store's transaction.
NoExtension == [kind |-> "none", isNew |-> FALSE, id |-> 0, site |-> Undef]
JiraExtension(isNew, id, site) ==
    [kind |-> "jira", isNew |-> isNew, id |-> id, site |-> site]

\* A jiraTransaction that only ever updates.
jiraTransaction_UpdateOnly(tx, e) == UpdateJiraSite(tx, e.id, e.site)

\* createJiraConnection's jiraTransaction: insert the detail row when the
\* handler found none, otherwise update its site id.
jiraTransaction(tx, e) ==
    IF e.isNew
        THEN InsertJiraConnection(tx, JiraRow(e.id, e.site, Null))
        ELSE UpdateJiraSite(tx, e.id, e.site)

\* if (extendTransaction) await extendTransaction(tx)
extendTransaction(tx, e) ==
    IF e.kind = "none" THEN tx ELSE jiraTransaction(tx, e)

\* A transaction that keeps what its statements wrote when one of them throws.
Transaction_NoRollback(db, tx, fault, id) ==
    [ok |-> tx.ok /\ ~fault, db |-> tx.db, rows |-> {}]

\* A transaction that rolls back without telling its caller.
Transaction_Silent(db, tx, fault, id) ==
    [ok |-> TRUE,
     db |-> IF tx.ok /\ ~fault THEN tx.db ELSE db,
     rows |-> IF tx.ok /\ ~fault THEN Returning(tx, id) ELSE {}]

\* drizzle.transaction(): all statements or none.  fault: a statement of
\* the transaction, the caller's extension included, threw for a reason other
\* than the constraints above.
Transaction(db, tx, fault, id) ==
    LET ok == tx.ok /\ ~fault
    IN  [ok |-> ok,
         db |-> IF ok THEN tx.db ELSE db,
         rows |-> IF ok THEN Returning(tx, id) ELSE {}]

\* An addConnectionToDB that writes the Connection row in a transaction of
\* its own before the rest.
addConnectionToDB_TwoTransactions(db, connection_id, external_id, refresh_token, expires_at, provider, e, fault) ==
    LET first == Transaction(db, InsertConnection(Tx(db),
                     ConnRow(connection_id, refresh_token, expires_at, FALSE)),
                     FALSE, connection_id)
        t2 == InsertExternalMap(Tx(first.db),
                  MapRow(external_id, provider, connection_id))
        t3 == extendTransaction(t2, e)
        second == Transaction(first.db, t3, fault, connection_id)
    IN  [second EXCEPT !.ok = first.ok /\ second.ok]

addConnectionToDB(db, connection_id, external_id, refresh_token, expires_at, provider, e, fault) ==
    LET t1 == InsertConnection(Tx(db),
                  ConnRow(connection_id, refresh_token, expires_at, FALSE))
        t2 == InsertExternalMap(t1, MapRow(external_id, provider, connection_id))
        t3 == extendTransaction(t2, e)
    IN  Transaction(db, t3, fault, connection_id)

updateConnectionInDB(db, connection_id, refresh_token, expires_at, e, fault) ==
    LET t1 == UpdateConnection(Tx(db), connection_id, refresh_token, expires_at)
        t2 == extendTransaction(t1, e)
    IN  Transaction(db, t2, fault, connection_id)

updateConnectionInvalidFlag(db, connection_id, isInvalid, fault) ==
    Transaction(db, UpdateInvalid(Tx(db), connection_id, isInvalid), fault,
                connection_id)

\* The tenant collaborator's add connection: the Connection row, its
\* ExternalMap row and the ownership row in one transaction.
CloudAddConnection(db, connection_id, external_id, provider, project_id, refresh_token, expires_at, e, fault) ==
    LET t1 == InsertConnection(Tx(db),
                  ConnRow(connection_id, refresh_token, expires_at, FALSE))
        t2 == InsertExternalMap(t1, MapRow(external_id, provider, connection_id))
        t3 == InsertProjectConnection(t2,
                  ProjectRow(project_id, external_id, provider, connection_id))
        t4 == extendTransaction(t3, e)
    IN  Transaction(db, t4, fault, connection_id)

\* The tenant collaborator's update connection.
CloudUpdateConnection(db, connection_id, refresh_token, expires_at, e, fault) ==
    updateConnectionInDB(db, connection_id, refresh_token, expires_at, e, fault)

\* The tenant collaborator's lookup: the connection the project owns for
\* (external_id, provider), else null (0).
CloudGetConnectionID(ext, prov, project) ==
    LET rows == {o \in projectConnectionMap : /\ o.projectId = project
                                              /\ o.externalId = ext
                                              /\ o.provider = prov}
    IN  IF rows = {} THEN 0 ELSE (CHOOSE o \in rows : TRUE).connectionId

\* general.ts createConnection, multi-tenant branch: the project id is
\* required; a connection id that is there is updated, otherwise one is
\* added.
createConnectionCloud(db, connection_id, provider, external_id, refreshToken, connectionExpiryDate, juncture_project_id, e, fault) ==
    IF juncture_project_id = Undef THEN [ok |-> FALSE, db |-> db, rows |-> {}]
    ELSE IF connection_id # 0
        THEN CloudUpdateConnection(db, connection_id, refreshToken,
                                   connectionExpiryDate, e, fault)
    ELSE CloudAddConnection(db, connection_id, external_id, provider,
                            juncture_project_id, refreshToken,
                            connectionExpiryDate, e, fault)

\* A createConnection that updates whatever it is told.
createConnection_AlwaysUpdate(db, connection_id, provider, external_id, refreshToken, connectionExpiryDate, is_new_connection, e, fault) ==
    updateConnectionInDB(db, connection_id, refreshToken,
                         connectionExpiryDate, e, fault)

\* general.ts createConnection, single-tenant branch.
createConnection(db, connection_id, provider, external_id, refreshToken, connectionExpiryDate, is_new_connection, e, fault) ==
    IF ~is_new_connection
        THEN updateConnectionInDB(db, connection_id, refreshToken,
                                  connectionExpiryDate, e, fault)
        ELSE addConnectionToDB(db, connection_id, external_id, refreshToken,
                               connectionExpiryDate, provider, e, fault)

\* SELECT ... FROM connection_external_map WHERE external_id, provider LIMIT 1
SelectMap(ext, prov) ==
    {m \in connectionExternalMap : m.externalId = ext /\ m.provider = prov}
SelectConnection(id) == {c \in connection : c.connectionId = id}
SelectJira(id) == {j \in jiraConnection : j.connectionId = id}

\* JSON.stringify(row) as stored in redis and what getConnectionDetails makes
\* of it: the timestamp travels as an ISO string and is turned back into a
\* Date on read.
ToISOString(t) == <<"iso", t>>
NewDate(s) == s[2]
JSONStringify(row) == [row EXCEPT !.expiresAt = ToISOString(@)]
ParseCachedDetails(c) == [c EXCEPT !.expiresAt = NewDate(@)]
NoDetails == JSONStringify(NoRow)

\* A lookup that trusts the cache alone.
getConnectionID_CacheOnly(ext, prov) ==
    IF ext # Undef THEN connIdCache[<<prov, ext>>] ELSE 0

\* A lookup whose query leaves the external id out of its WHERE clause.
getConnectionID_AnyIdentity(ext, prov) ==
    IF ext # Undef /\ connIdCache[<<prov, ext>>] # 0
        THEN connIdCache[<<prov, ext>>]
    ELSE IF {m \in connectionExternalMap : m.provider = prov} = {} THEN 0
    ELSE (CHOOSE m \in connectionExternalMap : m.provider = prov).connectionId

\* getConnectionID: the cached id if there is one, else the mapped id, else
\* null (0).
getConnectionID(ext, prov) ==
    IF ext # Undef /\ connIdCache[<<prov, ext>>] # 0
        THEN connIdCache[<<prov, ext>>]
    ELSE IF SelectMap(ext, prov) = {} THEN 0
    ELSE (CHOOSE m \in SelectMap(ext, prov) : TRUE).connectionId

\* The redis write getConnectionID issues on a miss that found a row.
getConnectionIDFill(ext, prov, w) ==
    IF w /\ ext # Undef /\ connIdCache[<<prov, ext>>] = 0
         /\ SelectMap(ext, prov) # {}
        THEN [connIdCache EXCEPT ![<<prov, ext>>] = getConnectionID(ext, prov)]
        ELSE connIdCache

\* A read that trusts the cache alone.
getConnectionDetails_CacheOnly(id) ==
    IF detailsCache[id] # NoDetails THEN ParseCachedDetails(detailsCache[id])
    ELSE NoRow

\* getConnectionDetails: the cached row (dates parsed) if there is one, else
\* the stored row, else null (NoRow).
getConnectionDetails(id) ==
    IF detailsCache[id] # NoDetails THEN ParseCachedDetails(detailsCache[id])
    ELSE IF SelectConnection(id) = {} THEN NoRow
    ELSE CHOOSE c \in SelectConnection(id) : TRUE

getConnectionDetailsFill(id, w) ==
    IF w /\ detailsCache[id] = NoDetails /\ SelectConnection(id) # {}
        THEN [detailsCache EXCEPT ![id] = JSONStringify(getConnectionDetails(id))]
        ELSE detailsCache

\* The cache refresh after updateConnectionInDB / updateConnectionInvalidFlag /
\* addConnectionToDB: redis.set(details key, JSON.stringify(result[0])).
SetDetails(cache, rows, w) ==
    IF w /\ rows # {}
        THEN LET row == CHOOSE c \in rows : TRUE
             IN  [cache EXCEPT ![row.connectionId] = JSONStringify(row)]
        ELSE cache

\* ================================================================ requests
StateBody(ext, key) ==                   \* RedisOAuthStateBody
    [external_id |-> ext, juncture_public_key |-> key]
Absent == StateBody("absent", "absent")  \* redis.get found no state
CodeBody(id, ext, tok, exp, isNew, project) ==    \* ConnectionCodeCacheBody
    [connection_id |-> id, provider |-> "jira", external_id |-> ext,
     refresh_token |-> tok, connection_expiry_date |-> exp,
     is_new_connection |-> isNew, juncture_project_id |-> project]
NoBody == CodeBody(0, Undef, 0, 0, FALSE, Undef)
JiraDetails(site, proj) == [siteId |-> site, selectedProjectId |-> proj]
NoJira == JiraDetails(Undef, Null)

\* What the provider's token endpoint answered: status 0 is no answer yet,
\* or none at all (timeout, network error).
Grant(status, error) == [status |-> status, error |-> error]
NoGrant == Grant(0, "none")

\* req.headers.authorization as split(' ') cuts it: no header at all, another
\* scheme, "Bearer" with nothing behind it, "Bearer " with an empty key, a
\* key that is not the configured one, the configured key.
JUNCTURE_SECRET_KEY == "secret"
NoHeader == <<>>
Headers ==
    { NoHeader, <<"Basic", JUNCTURE_SECRET_KEY>>, <<"Bearer">>, <<"Bearer", "">>,
      <<"Bearer", "wrong">>, <<"Bearer", JUNCTURE_SECRET_KEY>> }

\* What check-status and get-credentials answer with.
ConnectionData(exists, isInvalid, refreshToken, expiresAt) ==
    [exists |-> exists, isInvalid |-> isInvalid, refreshToken |-> refreshToken,
     expiresAt |-> expiresAt]
NoData == ConnectionData(FALSE, FALSE, 0, 0)

\* A request in flight: the handler, where it stands, its locals.
Idle ==
    [op |-> "idle", pc |-> "idle", prov |-> Undef, ext |-> Undef, nonce |-> 0,
     code |-> 0, conn |-> 0, tok |-> 0, acc |-> 0, ttl |-> 0, exp |-> 0,
     site |-> Undef, isNew |-> FALSE, proj |-> Null, rows |-> {},
     grant |-> NoGrant, auth |-> NoHeader, data |-> NoData,
     key |-> Undef, project |-> Undef]

\* A response: the handler, the HTTP status, the kind of error, and what
\* the request was about.
Reply(q, status, err) ==
    [op |-> q.op, status |-> status, err |-> err, prov |-> q.prov,
     ext |-> q.ext, conn |-> q.conn, code |-> q.code, nonce |-> q.nonce,
     acc |-> q.acc, ttl |-> q.ttl, isNew |-> q.isNew, site |-> q.site,
     grant |-> q.grant, auth |-> q.auth, data |-> q.data,
     project |-> q.project]
NoOut == Reply(Idle, 0, "none")

Free(r) == req[r].pc = "idle"
Begin(op, provider) == [Idle EXCEPT !.op = op, !.prov = provider]
At(r, op, pc) == req[r].op = op /\ req[r].pc = pc

\* The request in slot r ends with a response.
Respond(r, q, status, err) ==
    /\ req' = [req EXCEPT ![r] = Idle]
    /\ out' = Reply(q, status, err)
\* The request in slot r goes on without (another) response.
Continue(r, q) ==
    /\ req' = [req EXCEPT ![r] = q]
    /\ out' = NoOut

SetDB(db) ==
    /\ connection' = db.connection
    /\ connectionExternalMap' = db.map
    /\ jiraConnection' = db.jira
    /\ projectConnectionMap' = db.owner

\* What a write to redis may come to (TRUE: it landed, FALSE: it failed and
\* the .catch, or nobody, swallowed the error).  A flaky redis loses some
\* writes; one that is up loses none; one that is down loses all, so that
\* every read misses.
Writes ==
    IF redis = "up" THEN {TRUE}
    ELSE IF redis = "down" THEN {FALSE}
    ELSE BOOLEAN

\* The state after construction, redis aside.
Boot ==
    /\ connection = {}
    /\ connectionExternalMap = {}
    /\ jiraConnection = {}
    /\ projectConnectionMap = {}
    /\ stateCache = [n \in Nonces |-> Absent]
    /\ connIdCache = [k \in Providers \X ExternalIds |-> 0]
    /\ detailsCache = [c \in ConnIds |-> NoDetails]
    /\ accessTokenCache = [c \in ConnIds |-> 0]
    /\ accessTokenTTL = [c \in ConnIds |-> 0]
    /\ codeCache = [c \in Codes |-> NoBody]
    /\ jiraCache = [c \in ConnIds |-> NoJira]
    /\ nextUUID = [conn |-> 0, nonce |-> 0, code |-> 0]
    /\ issued = 0
    /\ now = 0
    /\ consumed = {}
    /\ marked = [c \in ConnIds |-> 0]
    /\ rotated = [c \in ConnIds |-> 0]
    /\ req = [r \in Reqs |-> Idle]
    /\ out = NoOut

Init == Boot /\ redis = "flaky" /\ cloudMode = FALSE

\* The tenants the collaborator knows, by public key.
PublicKeys == {"pk1", "pk2"}
ProjectOf(key) == IF key = "pk1" THEN "p1" ELSE "p2"

\* juncture_public_key as callers send it: a single-tenant caller sends
\* none; a multi-tenant caller may leave it out or send a key no project has.
PublicKeyInputs == IF cloudMode THEN PublicKeys \cup {Undef, "bad"} ELSE {Undef}

\* The tenant collaborator's credentials for a public key: the project, or
\* null (Undef).
CloudGetOAuthCredentials(key) ==
    IF key \in PublicKeys THEN ProjectOf(key) ELSE Undef

\* getOAuthCredentials: in multi-tenant mode the public key is required and
\* has to resolve to a project; in single-tenant mode the credentials come
\* from the environment and carry no project.
getOAuthCredentials(juncture_public_key) ==
    IF ~cloudMode THEN [error |-> "none", juncture_project_id |-> Undef]
    ELSE IF juncture_public_key = Undef
        THEN [error |-> "PublicKeyRequired", juncture_project_id |-> Undef]
    ELSE IF CloudGetOAuthCredentials(juncture_public_key) = Undef
        THEN [error |-> "InvalidPublicKey", juncture_project_id |-> Undef]
    ELSE [error |-> "none",
          juncture_project_id |-> CloudGetOAuthCredentials(juncture_public_key)]

\* State nonces a behaviour may hand out: one more in multi-tenant mode,
\* where two tenants may authorize the same external id.
NonceLimit == IF cloudMode THEN MaxNonce + 1 ELSE MaxNonce

\* ---------------------------------------------------------------- initiate
\* getAuthorizationURI: provider check, state nonce stored for 10 minutes
\* (not awaited), authorization URL returned.
getAuthorizationURI(r) ==
    /\ Free(r)
    /\ \E provider \in ProviderInputs, external_id \in ExternalIds \cup {Undef},
          juncture_public_key \in PublicKeyInputs, w \in Writes :
         LET q == [Begin("initiate", provider) EXCEPT !.ext = external_id,
                                                      !.key = juncture_public_key]
             credentials == getOAuthCredentials(juncture_public_key)
             state == nextUUID.nonce + 1
         IN  IF provider \notin Providers
                THEN /\ Respond(r, q, 400, "InvalidInput")
                     /\ UNCHANGED <<nextUUID, stateCache>>
             ELSE IF credentials.error # "none"
                THEN /\ Respond(r, q, 400, credentials.error)
                     /\ UNCHANGED <<nextUUID, stateCache>>
                ELSE /\ nextUUID.nonce < NonceLimit
                     /\ nextUUID' = [nextUUID EXCEPT !.nonce = state]
                     /\ stateCache' =
                            IF w THEN [stateCache EXCEPT ![state] =
                                          StateBody(external_id, juncture_public_key)]
                                 ELSE stateCache
                     /\ Respond(r, [q EXCEPT !.nonce = state], 200, "none")
    /\ UNCHANGED <<redis, cloudMode, rotated, marked, dbVars, connIdCache, detailsCache, accessTokenCache, accessTokenTTL,
                   codeCache, jiraCache, issued, now, consumed>>

\* ---------------------------------------------------------------- callback
\* A callback that takes any state for good.
verifyAndExtractState_Trusting(state) ==
    IF stateCache[state] = Absent
        THEN [error |-> FALSE, external_id |-> Undef,
              juncture_public_key |-> Undef]
    ELSE [error |-> FALSE, external_id |-> stateCache[state].external_id,
          juncture_public_key |-> stateCache[state].juncture_public_key]

\* verifyAndExtractState: redis.get(state); absent -> error.
verifyAndExtractState(state) ==
    IF stateCache[state] = Absent
        THEN [error |-> TRUE, external_id |-> Undef,
              juncture_public_key |-> Undef]
    ELSE [error |-> FALSE, external_id |-> stateCache[state].external_id,
          juncture_public_key |-> stateCache[state].juncture_public_key]

\* A callback that deletes the state it has verified.
callbackVerify_SingleUse(r) ==
    /\ Free(r)
    /\ \E provider \in ProviderInputs, state \in 0..NonceLimit :
         LET q == [Begin("callback", provider) EXCEPT !.nonce = state]
             stateData == verifyAndExtractState(state)
             credentials == getOAuthCredentials(stateData.juncture_public_key)
         IN  /\ stateCache' = IF provider \in Providers /\ state # 0
                                  THEN [stateCache EXCEPT ![state] = Absent]
                                  ELSE stateCache
             /\ IF provider \notin Providers THEN Respond(r, q, 400, "InvalidInput")
                ELSE IF state = 0 THEN Respond(r, q, 400, "InvalidInput")
                ELSE IF stateData.error
                    THEN Respond(r, q, 400, "InvalidOrExpiredState")
                ELSE IF credentials.error # "none"
                    THEN Respond(r, q, 400, credentials.error)
                ELSE Continue(r, [q EXCEPT !.pc = "exchange",
                            !.ext = stateData.external_id,
                            !.key = stateData.juncture_public_key,
                            !.project = credentials.juncture_project_id])
    /\ UNCHANGED <<redis, cloudMode, rotated, marked, dbVars, connIdCache, detailsCache,
                   accessTokenCache, accessTokenTTL, codeCache, jiraCache, nextUUID, issued, now,
                   consumed>>

\* authorizationCallback up to the state check and the credentials.
callbackVerify(r) ==
    /\ Free(r)
    /\ \E provider \in ProviderInputs, state \in 0..NonceLimit :
         LET q == [Begin("callback", provider) EXCEPT !.nonce = state]
             stateData == verifyAndExtractState(state)
             credentials == getOAuthCredentials(stateData.juncture_public_key)
         IN  IF provider \notin Providers THEN Respond(r, q, 400, "InvalidInput")
             ELSE IF state = 0 THEN Respond(r, q, 400, "InvalidInput")
             ELSE IF stateData.error
                 THEN Respond(r, q, 400, "InvalidOrExpiredState")
             ELSE IF credentials.error # "none"
                 THEN Respond(r, q, 400, credentials.error)
             ELSE Continue(r, [q EXCEPT !.pc = "exchange",
                         !.ext = stateData.external_id,
                         !.key = stateData.juncture_public_key,
                         !.project = credentials.juncture_project_id])
    /\ UNCHANGED <<redis, cloudMode, rotated, marked, dbVars, cacheVars, nextUUID, issued, now, consumed>>

\* A failed exchange that uses the state nonce up.
callbackExchangeFails_ConsumesState(r) ==
    /\ At(r, "callback", "exchange")
    /\ Respond(r, req[r], 400, "TokenExchangeFailed")
    /\ stateCache' = [stateCache EXCEPT ![req[r].nonce] = Absent]
    /\ UNCHANGED <<redis, cloudMode, rotated, marked, dbVars, connIdCache, detailsCache,
                   accessTokenCache, accessTokenTTL, codeCache, jiraCache, nextUUID, issued, now,
                   consumed>>

\* A failed exchange that drops the request without a response.
callbackExchangeFails_Silent(r) ==
    /\ At(r, "callback", "exchange")
    /\ req' = [req EXCEPT ![r] = Idle]
    /\ out' = NoOut
    /\ UNCHANGED <<redis, cloudMode, rotated, marked, dbVars, cacheVars, nextUUID, issued, now, consumed>>

\* exchangeCodeForTokens: the provider's token endpoint answered with an
\* error, or not at all.
callbackExchangeFails(r) ==
    /\ At(r, "callback", "exchange")
    /\ Respond(r, req[r], 400, "TokenExchangeFailed")
    /\ UNCHANGED <<redis, cloudMode, rotated, marked, dbVars, cacheVars, nextUUID, issued, now, consumed>>

\* exchangeCodeForTokens succeeded, then createConnection's lookup:
\* getConnectionID, or the collaborator's in multi-tenant mode.
callbackExchange(r) ==
    /\ At(r, "callback", "exchange")
    /\ issued < MaxTok
    /\ issued' = issued + 1
    /\ \E w \in Writes :
         /\ connIdCache' = IF cloudMode THEN connIdCache
                            ELSE getConnectionIDFill(req[r].ext, "jira", w)
         /\ Continue(r, [req[r] EXCEPT
                           !.pc = "commit", !.tok = issued + 1,
                           !.acc = issued + 1, !.exp = now + ConnectionLifetime,
                           !.conn = IF cloudMode
                                       THEN CloudGetConnectionID(req[r].ext, "jira",
                                                                 req[r].project)
                                       ELSE getConnectionID(req[r].ext, "jira")])
    /\ UNCHANGED <<redis, cloudMode, rotated, marked, dbVars, stateCache, detailsCache, accessTokenCache, accessTokenTTL,
                   codeCache, jiraCache, nextUUID, now, consumed>>

\* createConnection of the callback: update the connection found, or insert
\* a new one under a fresh uuid.
callbackCommit(r) ==
    /\ At(r, "callback", "commit")
    /\ \E fault \in BOOLEAN :
         LET q == req[r]
             isNew == q.conn = 0
             id == IF isNew THEN nextUUID.conn + 1 ELSE q.conn
             res == IF ~cloudMode
                       THEN createConnection(DB, id, "jira", q.ext, q.tok, q.exp,
                                             isNew, NoExtension, fault)
                    ELSE IF isNew
                       THEN CloudAddConnection(DB, id, q.ext, "jira", q.project,
                                               q.tok, q.exp, NoExtension, fault)
                    ELSE CloudUpdateConnection(DB, id, q.tok, q.exp,
                                               NoExtension, fault)
         IN  /\ isNew => nextUUID.conn < MaxConn
             /\ nextUUID' = IF isNew THEN [nextUUID EXCEPT !.conn = id]
                                     ELSE nextUUID
             /\ SetDB(res.db)
             /\ IF res.ok
                    THEN Continue(r, [q EXCEPT !.pc = "post", !.conn = id,
                                               !.isNew = isNew, !.rows = res.rows])
                    ELSE Respond(r, q, 500, "TransactionFailure")
    /\ UNCHANGED <<redis, cloudMode, rotated, marked, cacheVars, issued, now, consumed>>

\* generateTemporaryConnectionCode: the body stored under a fresh code for
\* 15 minutes (not awaited).
generateTemporaryConnectionCode(cache, code, body, w) ==
    IF w THEN [cache EXCEPT ![code] = body] ELSE cache

\* The body the callback hands over: the connection it committed and the
\* grant it exchanged.
CallbackHandoffBody(q) ==
    CodeBody(q.conn, q.ext, q.tok, q.exp, q.isNew, q.project)

\* The redis writes after the commit (none awaited), the handoff code, the
\* response.
callbackPost(r) ==
    /\ At(r, "callback", "post")
    /\ nextUUID.code < MaxCode
    /\ \E wId \in Writes, wDetails \in Writes, wCode \in Writes :
         LET q == req[r]
             code == nextUUID.code + 1
         IN  /\ connIdCache' = IF wId /\ q.isNew /\ ~cloudMode
                                  THEN [connIdCache EXCEPT ![<<"jira", q.ext>>] = q.conn]
                                  ELSE connIdCache
             /\ detailsCache' = SetDetails(detailsCache, q.rows, wDetails)
             /\ nextUUID' = [nextUUID EXCEPT !.code = code]
             /\ codeCache' = generateTemporaryConnectionCode(
                                 codeCache, code, CallbackHandoffBody(q), wCode)
             /\ Respond(r, [q EXCEPT !.code = code], 200, "none")
    /\ UNCHANGED <<redis, cloudMode, rotated, marked, dbVars, stateCache, accessTokenCache, accessTokenTTL, jiraCache, issued,
                   now, consumed>>

\* ---------------------------------------------------------------- finalize
\* getConnectionDetailsFromConnectionCode: redis.get, nothing else.
getConnectionDetailsFromConnectionCode(code) == codeCache[code]

\* getJiraConnectionDetails: the cached body, else the stored row, else an
\* error (NoJira).
getJiraConnectionDetails(id) ==
    IF jiraCache[id] # NoJira THEN jiraCache[id]
    ELSE IF SelectJira(id) = {} THEN NoJira
    ELSE LET j == CHOOSE j \in SelectJira(id) : TRUE
         IN  JiraDetails(j.jiraSiteId, j.selectedJiraProjectId)

getJiraConnectionDetailsFill(id, w) ==
    IF w /\ jiraCache[id] = NoJira /\ SelectJira(id) # {}
        THEN [jiraCache EXCEPT ![id] = getJiraConnectionDetails(id)]
        ELSE jiraCache

\* createJiraConnection up to the commit: input check, the code resolved,
\* the detail row looked up.
finalizeResolve(r) ==
    /\ Free(r)
    /\ \E connection_code \in 0..MaxCode, site_id \in Sites \cup {Undef},
          w \in Writes :
         LET q == [Begin("finalize", "jira") EXCEPT !.code = connection_code,
                                            !.site = site_id]
             body == getConnectionDetailsFromConnectionCode(connection_code)
         IN  IF connection_code = 0 \/ site_id = Undef
                THEN /\ Respond(r, q, 400, "InvalidInput")
                     /\ UNCHANGED jiraCache
             ELSE IF body = NoBody
                THEN /\ Respond(r, q, 400, "NotFound")
                     /\ UNCHANGED jiraCache
             ELSE /\ jiraCache' = getJiraConnectionDetailsFill(body.connection_id, w)
                  /\ Continue(r, [q EXCEPT
                           !.pc = "commit",
                           !.conn = body.connection_id,
                           !.ext = body.external_id,
                           !.tok = body.refresh_token,
                           !.exp = body.connection_expiry_date,
                           !.project = body.juncture_project_id,
                           !.isNew = getJiraConnectionDetails(body.connection_id) = NoJira,
                           !.proj = getJiraConnectionDetails(body.connection_id).selectedProjectId])
    /\ UNCHANGED <<redis, cloudMode, rotated, marked, dbVars, stateCache, connIdCache, detailsCache,
                   accessTokenCache, accessTokenTTL, codeCache, nextUUID, issued, now, consumed>>

\* The is_new_connection argument createJiraConnection passes.
FinalizeIsNewConnection == FALSE

\* createConnection(connectionId, 'jira', ..., false, ..., jiraTransaction)
finalizeCommit(r) ==
    /\ At(r, "finalize", "commit")
    /\ \E fault \in BOOLEAN :
         LET q == req[r]
             res == IF ~cloudMode
                       THEN createConnection(DB, q.conn, "jira", q.ext, q.tok,
                                q.exp, FinalizeIsNewConnection,
                                JiraExtension(q.isNew, q.conn, q.site), fault)
                       ELSE createConnectionCloud(DB, q.conn, "jira", q.ext,
                                q.tok, q.exp, q.project,
                                JiraExtension(q.isNew, q.conn, q.site), fault)
         IN  /\ SetDB(res.db)
             /\ IF res.ok
                    THEN Continue(r, [q EXCEPT !.pc = "post", !.rows = res.rows])
                    ELSE Respond(r, q, 500, "TransactionFailure")
    /\ UNCHANGED <<redis, cloudMode, rotated, marked, cacheVars, nextUUID, issued, now, consumed>>

\* A finalize that leaves the code where it is.
DeleteCode_Keep(cache, code, w) == cache

\* redis.del(connection code key), not awaited.
DeleteCode(cache, code, w) == IF w THEN [cache EXCEPT ![code] = NoBody] ELSE cache

\* After a successful commit: the detail caches refreshed, the code deleted
\* (none awaited), 200.
finalizePost(r) ==
    /\ At(r, "finalize", "post")
    /\ \E wDetails \in Writes, wJira \in Writes, wDel \in Writes :
         LET q == req[r]
         IN  /\ detailsCache' = SetDetails(detailsCache, q.rows, wDetails)
             /\ jiraCache' = IF wJira THEN [jiraCache EXCEPT ![q.conn] =
                                                JiraDetails(q.site, q.proj)]
                                      ELSE jiraCache
             /\ codeCache' = DeleteCode(codeCache, q.code, wDel)
             /\ consumed' = IF wDel THEN consumed \cup {q.code} ELSE consumed
             /\ Respond(r, q, 200, "none")
    /\ UNCHANGED <<redis, cloudMode, rotated, marked, dbVars, stateCache, connIdCache, accessTokenCache, accessTokenTTL,
                   nextUUID, issued, now>>

\* ---------------------------------------------------- fetch-available-sites
\* A fetch-available-sites that uses the code up.
fetchAvailableJiraSites_Consuming(r) ==
    /\ Free(r)
    /\ \E connection_code \in 0..MaxCode, sites \in BOOLEAN :
         LET q == [Begin("sites", "jira") EXCEPT !.code = connection_code]
             body == getConnectionDetailsFromConnectionCode(connection_code)
         IN  /\ codeCache' = IF connection_code = 0 THEN codeCache
                             ELSE DeleteCode(codeCache, connection_code, TRUE)
             /\ IF connection_code = 0 THEN Respond(r, q, 400, "InvalidInput")
                ELSE IF body = NoBody THEN Respond(r, q, 400, "NotFound")
                ELSE IF accessTokenCache[body.connection_id] = 0
                    THEN Respond(r, [q EXCEPT !.conn = body.connection_id],
                                 400, "AccessTokenNotFound")
                ELSE IF sites
                    THEN Respond(r, [q EXCEPT !.conn = body.connection_id],
                                 200, "none")
                ELSE Respond(r, [q EXCEPT !.conn = body.connection_id],
                             500, "ProviderError")
    /\ UNCHANGED <<redis, cloudMode, rotated, marked, dbVars, stateCache, connIdCache, detailsCache,
                   accessTokenCache, accessTokenTTL, jiraCache, nextUUID, issued, now, consumed>>

\* fetchAvailableJiraSites: the code resolved, the access token read from
\* redis, the provider asked for the accessible sites (sites: it answered).
\* The handler reads and writes nothing after its first await but the
\* response.
fetchAvailableJiraSites(r) ==
    /\ Free(r)
    /\ \E connection_code \in 0..MaxCode, sites \in BOOLEAN :
         LET q == [Begin("sites", "jira") EXCEPT !.code = connection_code]
             body == getConnectionDetailsFromConnectionCode(connection_code)
         IN  IF connection_code = 0 THEN Respond(r, q, 400, "InvalidInput")
             ELSE IF body = NoBody THEN Respond(r, q, 400, "NotFound")
             ELSE IF accessTokenCache[body.connection_id] = 0
                 THEN Respond(r, [q EXCEPT !.conn = body.connection_id],
                              400, "AccessTokenNotFound")
             ELSE IF sites
                 THEN Respond(r, [q EXCEPT !.conn = body.connection_id],
                              200, "none")
             ELSE Respond(r, [q EXCEPT !.conn = body.connection_id],
                          500, "ProviderError")
    /\ UNCHANGED <<redis, cloudMode, rotated, marked, dbVars, cacheVars, nextUUID, issued, now, consumed>>

\* --------------------------------------------------------------- secret key
\* A verifier that takes any non-empty bearer key.
verifySecretKey_AnyKey(authHeader) ==
    authHeader # NoHeader /\ Len(authHeader) >= 2 /\ authHeader[1] = "Bearer"
        /\ authHeader[2] # ""

\* verifySecretKey, single-tenant: the header is there, starts with
\* "Bearer ", has a second part, that part is not empty and equals
\* JUNCTURE_SECRET_KEY.
verifySecretKey(authHeader) ==
    IF authHeader = NoHeader THEN FALSE
    ELSE IF ~(Len(authHeader) >= 2 /\ authHeader[1] = "Bearer") THEN FALSE
    ELSE IF Len(authHeader) < 2 THEN FALSE
    ELSE IF authHeader[2] = "" THEN FALSE
    ELSE IF authHeader[2] # JUNCTURE_SECRET_KEY THEN FALSE
    ELSE TRUE

\* getConnectionIDFromSecretKey: the verifier's error, else the lookup's.
getConnectionIDFromSecretKey(authHeader, external_id, provider) ==
    IF ~verifySecretKey(authHeader)
        THEN [connectionId |-> 0, error |-> "Unauthorized"]
    ELSE IF getConnectionID(external_id, provider) = 0
        THEN [connectionId |-> 0, error |-> "NotFound"]
    ELSE [connectionId |-> getConnectionID(external_id, provider),
          error |-> "none"]

\* The redis write of the lookup, which runs only behind a valid key.
getConnectionIDFromSecretKeyFill(authHeader, external_id, provider, w) ==
    IF verifySecretKey(authHeader)
        THEN getConnectionIDFill(external_id, provider, w)
        ELSE connIdCache

\* ------------------------------------------------ check-status, credentials
\* A check-status that reports the flag alone.
checkConnectionStatus_FlagOnly(r) ==
    /\ Free(r)
    /\ \E provider \in ProviderInputs, external_id \in ExternalIds \cup {Undef},
          authorization \in Headers :
         LET q == [Begin("status", provider) EXCEPT !.ext = external_id,
                                                    !.auth = authorization]
             got == getConnectionIDFromSecretKey(authorization, external_id, "jira")
             id == got.connectionId
             details == getConnectionDetails(id)
         IN  IF external_id = Undef \/ provider \notin Providers
                THEN /\ Respond(r, q, 400, "InvalidInput")
                     /\ UNCHANGED <<connIdCache, detailsCache>>
             ELSE IF id = 0
                THEN /\ Respond(r, q, 401, got.error)
                     /\ UNCHANGED <<connIdCache, detailsCache>>
             ELSE \E w \in Writes, wDetails \in Writes :
                  /\ connIdCache' = getConnectionIDFromSecretKeyFill(
                                        authorization, external_id, "jira", w)
                  /\ detailsCache' = getConnectionDetailsFill(id, wDetails)
                  /\ IF details = NoRow
                        THEN Respond(r, [q EXCEPT !.conn = id], 200, "none")
                        ELSE Respond(r, [q EXCEPT !.conn = id, !.data =
                                 ConnectionData(TRUE, details.invalidRefreshToken,
                                     0, details.expiresAt)], 200, "none")
    /\ UNCHANGED <<redis, cloudMode, rotated, marked, dbVars, stateCache, accessTokenCache, accessTokenTTL, codeCache, jiraCache,
                   nextUUID, issued, now, consumed>>

\* checkConnectionStatus: input check, provider check, the key and the
\* connection id, the connection details.
checkConnectionStatus(r) ==
    /\ Free(r)
    /\ \E provider \in ProviderInputs, external_id \in ExternalIds \cup {Undef},
          authorization \in Headers :
         LET q == [Begin("status", provider) EXCEPT !.ext = external_id,
                                                    !.auth = authorization]
             got == getConnectionIDFromSecretKey(authorization, external_id, "jira")
             id == got.connectionId
             details == getConnectionDetails(id)
         IN  IF external_id = Undef \/ provider \notin Providers
                THEN /\ Respond(r, q, 400, "InvalidInput")
                     /\ UNCHANGED <<connIdCache, detailsCache>>
             ELSE IF id = 0
                THEN /\ Respond(r, q, 401, got.error)
                     /\ UNCHANGED <<connIdCache, detailsCache>>
             ELSE \E w \in Writes, wDetails \in Writes :
                  /\ connIdCache' = getConnectionIDFromSecretKeyFill(
                                        authorization, external_id, "jira", w)
                  /\ detailsCache' = getConnectionDetailsFill(id, wDetails)
                  /\ IF details = NoRow
                        THEN Respond(r, [q EXCEPT !.conn = id], 200, "none")
                        ELSE Respond(r, [q EXCEPT !.conn = id, !.data =
                                 ConnectionData(TRUE,
                                     details.expiresAt < now
                                        \/ details.invalidRefreshToken,
                                     0, details.expiresAt)], 200, "none")
    /\ UNCHANGED <<redis, cloudMode, rotated, marked, dbVars, stateCache, accessTokenCache, accessTokenTTL, codeCache, jiraCache,
                   nextUUID, issued, now, consumed>>

\* getConnectionCredentials: as above, answering with the refresh token, the
\* expiry and the stored flag.
getConnectionCredentials(r) ==
    /\ Free(r)
    /\ \E provider \in ProviderInputs, external_id \in ExternalIds \cup {Undef},
          authorization \in Headers :
         LET q == [Begin("credentials", provider) EXCEPT !.ext = external_id,
                                                         !.auth = authorization]
             got == getConnectionIDFromSecretKey(authorization, external_id, "jira")
             id == got.connectionId
             details == getConnectionDetails(id)
         IN  IF external_id = Undef \/ provider \notin Providers
                THEN /\ Respond(r, q, 400, "InvalidInput")
                     /\ UNCHANGED <<connIdCache, detailsCache>>
             ELSE IF id = 0
                THEN /\ Respond(r, q, 401, got.error)
                     /\ UNCHANGED <<connIdCache, detailsCache>>
             ELSE \E w \in Writes, wDetails \in Writes :
                  /\ connIdCache' = getConnectionIDFromSecretKeyFill(
                                        authorization, external_id, "jira", w)
                  /\ detailsCache' = getConnectionDetailsFill(id, wDetails)
                  /\ IF details = NoRow
                        THEN Respond(r, [q EXCEPT !.conn = id], 404,
                                     "ConnectionNotFound")
                        ELSE Respond(r, [q EXCEPT !.conn = id, !.data =
                                 ConnectionData(TRUE, details.invalidRefreshToken,
                                     details.refreshToken, details.expiresAt)],
                                     200, "none")
    /\ UNCHANGED <<redis, cloudMode, rotated, marked, dbVars, stateCache, accessTokenCache, accessTokenTTL, codeCache, jiraCache,
                   nextUUID, issued, now, consumed>>

\* ----------------------------------------------------------- select-project
JiraProjects == {"proj-1"}

\* An update that also takes the site id off the row.
UpdateSelectedProject_ResetsSite(jira, id, proj) ==
    {IF j.connectionId = id
        THEN [j EXCEPT !.selectedJiraProjectId = proj, !.jiraSiteId = Undef]
        ELSE j : j \in jira}

\* UPDATE jira_connection SET selected_jira_project_id WHERE connection_id.
UpdateSelectedProject(jira, id, proj) ==
    {IF j.connectionId = id THEN [j EXCEPT !.selectedJiraProjectId = proj]
        ELSE j : j \in jira}

\* selectJiraProject: input check, the key and the connection id, then
\* updateSelectedJiraProject: the update of the detail row (no row: error)
\* and the cache write of its site and project (not awaited).  thrown: the
\* update threw, which nothing catches, and no response is sent.
selectJiraProject(r) ==
    /\ Free(r)
    /\ \E external_id \in ExternalIds \cup {Undef},
          jira_project_id \in JiraProjects \cup {Undef},
          authorization \in Headers :
         LET q == [Begin("select", "jira") EXCEPT !.ext = external_id,
                                                  !.auth = authorization,
                                                  !.proj = jira_project_id]
             got == getConnectionIDFromSecretKey(authorization, external_id, "jira")
             id == got.connectionId
         IN  IF external_id = Undef \/ jira_project_id = Undef
                THEN /\ Respond(r, q, 400, "InvalidInput")
                     /\ UNCHANGED <<connIdCache, jiraConnection, jiraCache>>
             ELSE IF id = 0
                THEN /\ Respond(r, q, 401, got.error)
                     /\ UNCHANGED <<connIdCache, jiraConnection, jiraCache>>
             ELSE \E w \in Writes, wJira \in Writes, thrown \in BOOLEAN :
                  /\ connIdCache' = getConnectionIDFromSecretKeyFill(
                                        authorization, external_id, "jira", w)
                  /\ IF thrown
                        THEN /\ out' = NoOut /\ UNCHANGED req
                             /\ UNCHANGED <<jiraConnection, jiraCache>>
                     ELSE IF SelectJira(id) = {}
                        THEN /\ Respond(r, [q EXCEPT !.conn = id], 401, "UpdateFailed")
                             /\ UNCHANGED <<jiraConnection, jiraCache>>
                     ELSE /\ jiraConnection' =
                                UpdateSelectedProject(jiraConnection, id,
                                                      jira_project_id)
                          /\ jiraCache' =
                                IF wJira
                                    THEN [jiraCache EXCEPT ![id] = JiraDetails(
                                             (CHOOSE j \in SelectJira(id) : TRUE).jiraSiteId,
                                             jira_project_id)]
                                    ELSE jiraCache
                          /\ Respond(r, [q EXCEPT !.conn = id], 200, "none")
    /\ UNCHANGED <<redis, cloudMode, rotated, marked, connection, connectionExternalMap,
                   projectConnectionMap, stateCache, detailsCache, accessTokenCache, accessTokenTTL,
                   codeCache, nextUUID, issued, now, consumed>>

\* -------------------------------------------------------- get-access-token
\* A validity check that looks at the flag alone.
IsInvalid_FlagOnly(details) == details.invalidRefreshToken

\* A validity check that looks at the expiry alone.
IsInvalid_ExpiryOnly(details) == details.expiresAt < now

\* isInvalid of getNewAccessTokenFromConnection.
IsInvalid(details) == details.invalidRefreshToken \/ details.expiresAt < now

\* The errors getAccessTokenHelper returns, by kind: the connection is gone,
\* it needs re-authorization (flag set, expired, or invalid_grant), or the
\* refresh failed for another reason.
HelperErrors == {"ConnectionNotFound", "NeedsReauthorization", "RefreshFailed"}

\* if ('error' in accessTokenResult) res.status(401).json({ error })
getAccessTokenErrorStatus(error) == 401

\* getAccessToken up to the provider call: provider check, the key and the
\* connection id, access-token cache, connection details, validity.
tokenLoad(r) ==
    /\ Free(r)
    /\ \E provider \in ProviderInputs, external_id \in ExternalIds,
          authorization \in Headers :
         LET q == [Begin("token", provider) EXCEPT !.ext = external_id,
                                                   !.auth = authorization]
             got == getConnectionIDFromSecretKey(authorization, external_id, "jira")
             id == got.connectionId
             details == getConnectionDetails(id)
         IN  IF provider \notin Providers
                THEN /\ Respond(r, q, 400, "InvalidInput")
                     /\ UNCHANGED <<connIdCache, detailsCache>>
             ELSE IF id = 0
                THEN /\ Respond(r, q, 401, got.error)
                     /\ UNCHANGED <<connIdCache, detailsCache>>
             ELSE IF accessTokenCache[id] # 0
                THEN \E w \in Writes :
                     /\ Respond(r, [q EXCEPT !.conn = id,
                                             !.acc = accessTokenCache[id]],
                                200, "none")
                     /\ connIdCache' = getConnectionIDFromSecretKeyFill(
                                           authorization, external_id, "jira", w)
                     /\ UNCHANGED detailsCache
             ELSE \E w \in Writes, wDetails \in Writes :
                  /\ connIdCache' = getConnectionIDFromSecretKeyFill(
                                        authorization, external_id, "jira", w)
                  /\ detailsCache' = getConnectionDetailsFill(id, wDetails)
                  /\ IF details = NoRow
                        THEN Respond(r, [q EXCEPT !.conn = id],
                                     getAccessTokenErrorStatus("ConnectionNotFound"),
                                     "ConnectionNotFound")
                     ELSE IF IsInvalid(details)
                        THEN Respond(r, [q EXCEPT !.conn = id],
                                     getAccessTokenErrorStatus("NeedsReauthorization"),
                                     "NeedsReauthorization")
                     ELSE Continue(r, [q EXCEPT !.pc = "refresh", !.conn = id,
                                                !.tok = details.refreshToken,
                                                !.exp = details.expiresAt])
    /\ UNCHANGED <<redis, cloudMode, rotated, marked, dbVars, stateCache, accessTokenCache, accessTokenTTL, codeCache, jiraCache,
                   nextUUID, issued, now, consumed>>

\* What the provider's token endpoint may answer to a refresh_token grant,
\* other than success: status 0 is no response (timeout, network error).
ProviderErrors ==
    { Grant(403, "invalid_grant"), Grant(400, "invalid_grant"),
      Grant(403, "access_denied"), Grant(0, "none") }

\* A check of the error body alone.
IsInvalidGrant_AnyStatus(reply) == reply.error = "invalid_grant"

\* A check of the status alone.
IsInvalidGrant_AnyForbidden(reply) == reply.status = InvalidGrantStatus

\* error.response && status === 403 && data && data.error === 'invalid_grant'
IsInvalidGrant(reply) ==
    reply.status = InvalidGrantStatus /\ reply.error = "invalid_grant"

\* The refresh call answered with an error: the response is sent; after an
\* invalid_grant the mark-invalid write is left running.
tokenRefreshFails(r) ==
    /\ At(r, "token", "refresh")
    /\ \E reply \in ProviderErrors :
         LET q == [req[r] EXCEPT !.grant = reply]
         IN  IF IsInvalidGrant(reply)
                THEN /\ req' = [req EXCEPT ![r] = [q EXCEPT !.pc = "mark"]]
                     /\ out' = Reply(q, getAccessTokenErrorStatus("NeedsReauthorization"),
                                     "NeedsReauthorization")
                ELSE Respond(r, q, getAccessTokenErrorStatus("RefreshFailed"),
                             "RefreshFailed")
    /\ UNCHANGED <<redis, cloudMode, rotated, marked, dbVars, cacheVars, nextUUID, issued, now, consumed>>

\* The refresh call answered with a new token pair: the response is sent,
\* the store and cache writes are left running.
tokenRefresh(r) ==
    /\ At(r, "token", "refresh")
    /\ issued < MaxTok
    /\ issued' = issued + 1
    /\ \E expires_in \in ExpiresInValues :
         LET q == [req[r] EXCEPT !.pc = "persist", !.acc = issued + 1,
                                 !.tok = issued + 1,
                                 !.ttl = expires_in - AccessTokenSkew,
                                 !.grant = Grant(200, "none")]
         IN  /\ req' = [req EXCEPT ![r] = q]
             /\ out' = Reply(q, 200, "none")
             /\ rotated' = [rotated EXCEPT ![q.conn] = issued + 1]
    /\ UNCHANGED <<redis, cloudMode, marked, dbVars, cacheVars, nextUUID, now, consumed>>

\* A store of the token under every connection's key.
storeAccessTokenInRedis_EveryKey(cache, accessToken, expiresIn, connectionId, w) ==
    IF w /\ expiresIn > 0 THEN [c \in DOMAIN cache |-> accessToken] ELSE cache

\* storeAccessTokenInRedis: SET ... EX expiresIn; redis refuses an expiry
\* that is not positive.
storeAccessTokenInRedis(cache, accessToken, expiresIn, connectionId, w) ==
    IF w /\ expiresIn > 0 THEN [cache EXCEPT ![connectionId] = accessToken]
    ELSE cache

\* A key that lives for the provider's whole lifetime.
storeAccessTokenEx_FullLifetime(ex, expiresIn, connectionId, w) ==
    IF w /\ expiresIn > 0
        THEN [ex EXCEPT ![connectionId] = expiresIn + AccessTokenSkew]
        ELSE ex

\* The EX of storeAccessTokenInRedis's SET.
storeAccessTokenEx(ex, expiresIn, connectionId, w) ==
    IF w /\ expiresIn > 0 THEN [ex EXCEPT ![connectionId] = expiresIn] ELSE ex

\* An expiry counted from the time of the refresh.
RefreshedExpiry_FromNow(expiresAt, expiresIn) == now + expiresIn

\* new Date(expiresAt.getTime() + expiresIn * 1000): the expiry the refresh
\* stores, counted from the expiry it loaded.
RefreshedExpiry(expiresAt, expiresIn) == expiresAt + expiresIn

\* The two calls left running after a successful refresh.
tokenPersist(r) ==
    /\ At(r, "token", "persist")
    /\ \E w \in Writes, fault \in BOOLEAN :
         LET q == req[r]
             res == updateConnectionInDB(DB, q.conn, q.tok,
                                         RefreshedExpiry(q.exp, q.ttl),
                                         NoExtension, fault)
         IN  /\ accessTokenCache' =
                    storeAccessTokenInRedis(accessTokenCache, q.acc, q.ttl,
                                            q.conn, w)
             /\ accessTokenTTL' =
                    storeAccessTokenEx(accessTokenTTL, q.ttl, q.conn, w)
             /\ SetDB(res.db)
             /\ Continue(r, IF res.ok THEN [q EXCEPT !.pc = "cache", !.rows = res.rows]
                                      ELSE Idle)
    /\ UNCHANGED <<redis, cloudMode, rotated, marked, stateCache, connIdCache, detailsCache, codeCache, jiraCache,
                   nextUUID, issued, now, consumed>>

\* updateConnectionInvalidFlag(connectionId, true), left running after the
\* invalid_grant response.
tokenMark(r) ==
    /\ At(r, "token", "mark")
    /\ \E fault \in BOOLEAN :
         LET q == req[r]
             res == updateConnectionInvalidFlag(DB, q.conn, TRUE, fault)
         IN  /\ SetDB(res.db)
             /\ marked' = IF res.ok /\ res.rows # {}
                             THEN [marked EXCEPT ![q.conn] = issued]
                             ELSE marked
             /\ Continue(r, IF res.ok THEN [q EXCEPT !.pc = "cache", !.rows = res.rows]
                                      ELSE Idle)
    /\ UNCHANGED <<redis, cloudMode, rotated, cacheVars, nextUUID, issued, now, consumed>>

\* The details-cache refresh that ends updateConnectionInDB and
\* updateConnectionInvalidFlag.
tokenCache(r) ==
    /\ At(r, "token", "cache")
    /\ \E w \in Writes :
         /\ detailsCache' = SetDetails(detailsCache, req[r].rows, w)
         /\ Continue(r, Idle)
    /\ UNCHANGED <<redis, cloudMode, rotated, marked, dbVars, stateCache, connIdCache, accessTokenCache, accessTokenTTL,
                   codeCache, jiraCache, nextUUID, issued, now, consumed>>

\* ------------------------------------------------------------------ lookup
\* getConnectionIDFromSecretKey with a valid key: getConnectionID.
lookup(r) ==
    /\ Free(r)
    /\ \E external_id \in ExternalIds, w \in Writes :
         LET q == [Begin("lookup", "jira") EXCEPT !.ext = external_id,
                                          !.conn = getConnectionID(external_id, "jira")]
         IN  /\ connIdCache' = getConnectionIDFill(external_id, "jira", w)
             /\ IF q.conn = 0 THEN Respond(r, q, 401, "NotFound")
                              ELSE Respond(r, q, 200, "none")
    /\ UNCHANGED <<redis, cloudMode, rotated, marked, dbVars, stateCache, detailsCache, accessTokenCache, accessTokenTTL,
                   codeCache, jiraCache, nextUUID, issued, now, consumed>>

\* ------------------------------------------------------------------ commit
\* createConnection as the store exports it: called with either value of
\* is_new_connection, with or without a jiraTransaction, for a fresh
\* connection id (new) or a known one; then the redis writes of
\* addConnectionToDB / updateConnectionInDB.
commit(r) ==
    /\ Free(r)
    /\ issued < MaxTok
    /\ \E is_new_connection \in BOOLEAN, external_id \in ExternalIds,
          known \in ConnIds, site_id \in Sites \cup {Undef},
          fault \in BOOLEAN, w \in Writes, wDetails \in Writes :
         LET id == IF is_new_connection THEN nextUUID.conn + 1 ELSE known
             e == IF site_id = Undef THEN NoExtension
                  ELSE JiraExtension(SelectJira(id) = {}, id, site_id)
             q == [Begin("commit", "jira") EXCEPT !.ext = external_id, !.conn = id,
                         !.tok = issued + 1, !.exp = now + ConnectionLifetime,
                         !.isNew = is_new_connection, !.site = site_id]
             res == createConnection(DB, id, "jira", external_id, q.tok, q.exp,
                                     is_new_connection, e, fault)
         IN  /\ is_new_connection => nextUUID.conn < MaxConn
             /\ nextUUID' = IF is_new_connection
                               THEN [nextUUID EXCEPT !.conn = id] ELSE nextUUID
             /\ issued' = issued + 1
             /\ SetDB(res.db)
             /\ connIdCache' =
                    IF res.ok /\ w /\ is_new_connection
                        THEN [connIdCache EXCEPT ![<<"jira", external_id>>] = id]
                        ELSE connIdCache
             /\ detailsCache' =
                    IF res.ok THEN SetDetails(detailsCache, res.rows, wDetails)
                              ELSE detailsCache
             /\ IF res.ok THEN Respond(r, q, 200, "none")
                          ELSE Respond(r, q, 500, "TransactionFailure")
    /\ UNCHANGED <<redis, cloudMode, rotated, marked, stateCache, accessTokenCache, accessTokenTTL, codeCache, jiraCache, now,
                   consumed>>

\* ------------------------------------------------------------- environment
\* A redis key expires (or is evicted).
expireState ==
    /\ \E n \in Nonces : /\ stateCache[n] # Absent
                         /\ stateCache' = [stateCache EXCEPT ![n] = Absent]
    /\ out' = NoOut
    /\ UNCHANGED <<redis, cloudMode, rotated, marked, dbVars, connIdCache, detailsCache, accessTokenCache, accessTokenTTL,
                   codeCache, jiraCache, nextUUID, issued, now, consumed, req>>
expireConnId ==
    /\ \E k \in DOMAIN connIdCache : /\ connIdCache[k] # 0
                                     /\ connIdCache' = [connIdCache EXCEPT ![k] = 0]
    /\ out' = NoOut
    /\ UNCHANGED <<redis, cloudMode, rotated, marked, dbVars, stateCache, detailsCache, accessTokenCache, accessTokenTTL,
                   codeCache, jiraCache, nextUUID, issued, now, consumed, req>>
\* A redis that keeps connection-detail entries for good.
expireDetails_Never == FALSE /\ UNCHANGED vars

expireDetails ==
    /\ \E c \in ConnIds : /\ detailsCache[c] # NoDetails
                          /\ detailsCache' = [detailsCache EXCEPT ![c] = NoDetails]
    /\ out' = NoOut
    /\ UNCHANGED <<redis, cloudMode, rotated, marked, dbVars, stateCache, connIdCache, accessTokenCache, accessTokenTTL,
                   codeCache, jiraCache, nextUUID, issued, now, consumed, req>>
expireAccessToken ==
    /\ \E c \in ConnIds : /\ accessTokenCache[c] # 0
                          /\ accessTokenCache' = [accessTokenCache EXCEPT ![c] = 0]
                          /\ accessTokenTTL' = [accessTokenTTL EXCEPT ![c] = 0]
    /\ out' = NoOut
    /\ UNCHANGED <<redis, cloudMode, rotated, marked, dbVars, stateCache, connIdCache, detailsCache,
                   codeCache, jiraCache, nextUUID, issued, now, consumed, req>>
expireCode ==
    /\ \E c \in Codes : /\ codeCache[c] # NoBody
                        /\ codeCache' = [codeCache EXCEPT ![c] = NoBody]
    /\ out' = NoOut
    /\ UNCHANGED <<redis, cloudMode, rotated, marked, dbVars, stateCache, connIdCache, detailsCache,
                   accessTokenCache, accessTokenTTL, jiraCache, nextUUID, issued, now,
                   consumed, req>>
expireJira ==
    /\ \E c \in ConnIds : /\ jiraCache[c] # NoJira
                          /\ jiraCache' = [jiraCache EXCEPT ![c] = NoJira]
    /\ out' = NoOut
    /\ UNCHANGED <<redis, cloudMode, rotated, marked, dbVars, stateCache, connIdCache, detailsCache,
                   accessTokenCache, accessTokenTTL, codeCache, nextUUID, issued, now,
                   consumed, req>>

\* The clock jumps by a year.
tick ==
    /\ now < MaxTick * Year
    /\ now' = now + Year
    /\ out' = NoOut
    /\ UNCHANGED <<redis, cloudMode, rotated, marked, dbVars, cacheVars, nextUUID, issued, consumed, req>>

\* ========================================================== specifications
Callback(r) ==
    \/ callbackVerify(r)
    \/ callbackExchangeFails(r)
    \/ callbackExchange(r)
    \/ callbackCommit(r)
    \/ callbackPost(r)

Finalize(r) ==
    \/ finalizeResolve(r)
    \/ finalizeCommit(r)
    \/ finalizePost(r)

\* A get-access-token that waits while another request is at the provider.
Token_OneRefreshAtATime(r) ==
    \/ tokenLoad(r) /\ \A s \in Reqs : ~At(s, "token", "refresh")
    \/ tokenRefreshFails(r)
    \/ tokenRefresh(r)
    \/ tokenPersist(r)
    \/ tokenMark(r)
    \/ tokenCache(r)

Token(r) ==
    \/ tokenLoad(r)
    \/ tokenRefreshFails(r)
    \/ tokenRefresh(r)
    \/ tokenPersist(r)
    \/ tokenMark(r)
    \/ tokenCache(r)

\* Every handler, one request at a time, with every cache key free to
\* expire and the clock free to jump.
Next ==
    \/ getAuthorizationURI(1)
    \/ Callback(1)
    \/ Finalize(1)
    \/ Token(1)
    \/ lookup(1)
    \/ expireState
    \/ expireConnId
    \/ expireDetails
    \/ expireAccessToken
    \/ expireCode
    \/ expireJira
    \/ tick

Spec == Init /\ [][Next]_vars

\* The authorization flow, one request at a time.
NextFlow ==
    \/ getAuthorizationURI(1)
    \/ Callback(1)
    \/ Finalize(1)
    \/ lookup(1)
    \/ expireState
    \/ expireConnId
    \/ expireDetails
    \/ expireCode
    \/ expireJira

SpecFlow == Init /\ [][NextFlow]_vars

\* Connections made by the callback, then the token broker.
NextToken ==
    \/ getAuthorizationURI(1)
    \/ Callback(1)
    \/ Token(1)
    \/ expireConnId
    \/ expireDetails
    \/ expireAccessToken
    \/ tick

SpecToken == Init /\ [][NextToken]_vars

\* The whole journey of an identity, one request at a time, while no key
\* expires and the clock stands still; a redis write may still be lost.
NextJourney ==
    \/ getAuthorizationURI(1)
    \/ Callback(1)
    \/ Finalize(1)
    \/ Token(1)

SpecJourney == Init /\ [][NextJourney]_vars

\* Two callbacks in flight at once.
NextRace ==
    \/ getAuthorizationURI(1)
    \/ \E r \in Reqs : Callback(r)
    \/ lookup(1)
    \/ expireConnId

SpecRace == Init /\ [][NextRace]_vars

\* Connections made by the callback, then token requests in flight together.
NextMark ==
    \/ getAuthorizationURI(1)
    \/ Callback(1)
    \/ \E r \in Reqs : Token(r)

SpecMark == Init /\ [][NextMark]_vars

\* The authorization flow in either deployment mode, one request at a time.
InitTenancy == Boot /\ redis = "flaky" /\ cloudMode \in BOOLEAN

NextTenancy ==
    \/ getAuthorizationURI(1)
    \/ Callback(1)
    \/ Finalize(1)

SpecTenancy == InitTenancy /\ [][NextTenancy]_vars

\* The token broker over connections made by the callback, with the
\* connection-details entries free to expire; an entry that is there does
\* expire in the end (every redis.set of it carries ex: CACHE_EXPIRY).
NextStale ==
    \/ getAuthorizationURI(1)
    \/ Callback(1)
    \/ Token(1)
    \/ expireDetails

SpecStale ==
    /\ Init /\ [][NextStale]_vars
    /\ \A id \in ConnIds :
          WF_vars(expireDetails /\ detailsCache'[id] = NoDetails)

\* The store's commit on its own.
NextStore ==
    \/ commit(1)
    \/ lookup(1)
    \/ expireConnId
    \/ expireDetails

SpecStore == Init /\ [][NextStore]_vars

\* The handoff: codes issued by callbacks, resolved by fetch-available-sites
\* and finalize, with the token broker filling the access-token cache.
NextHandoff ==
    \/ getAuthorizationURI(1)
    \/ Callback(1)
    \/ fetchAvailableJiraSites(1)
    \/ Finalize(1)
    \/ Token(1)
    \/ expireCode

SpecHandoff == Init /\ [][NextHandoff]_vars

\* The backend-facing operations on connections made by callbacks.
NextBackend ==
    \/ getAuthorizationURI(1)
    \/ Callback(1)
    \/ checkConnectionStatus(1)
    \/ getConnectionCredentials(1)
    \/ Token(1)

SpecBackend == Init /\ [][NextBackend]_vars

\* The store's operations and the token broker, one request at a time,
\* against a redis that works and against one that is down.
InitProjection == Boot /\ redis \in {"up", "down"} /\ cloudMode = FALSE

NextProjection ==
    \/ commit(1)
    \/ lookup(1)
    \/ getConnectionCredentials(1)
    \/ Token(1)
    \/ expireDetails

SpecProjection == InitProjection /\ [][NextProjection]_vars

\* Every operation on a connection that is there: e1 was authorized and
\* finalized (state 1, code 1, grant 1), the cache entries of the
\* connection have expired and the state has not.  The re-authorization
\* comes in under that state.
InitEstablished ==
    /\ connection = {ConnRow(1, 1, ConnectionLifetime, FALSE)}
    /\ connectionExternalMap = {MapRow("e1", "jira", 1)}
    /\ jiraConnection = {JiraRow(1, "site-9", Null)}
    /\ projectConnectionMap = {}
    /\ stateCache = [n \in Nonces |-> IF n = 1 THEN StateBody("e1", Undef)
                                              ELSE Absent]
    /\ connIdCache = [k \in Providers \X ExternalIds |-> 0]
    /\ detailsCache = [c \in ConnIds |-> NoDetails]
    /\ accessTokenCache = [c \in ConnIds |-> 0]
    /\ accessTokenTTL = [c \in ConnIds |-> 0]
    /\ codeCache = [c \in Codes |-> NoBody]
    /\ jiraCache = [c \in ConnIds |-> NoJira]
    /\ nextUUID = [conn |-> 1, nonce |-> 1, code |-> 1]
    /\ issued = 1
    /\ now = 0
    /\ consumed = {1}
    /\ marked = [c \in ConnIds |-> 0]
    /\ rotated = [c \in ConnIds |-> 0]
    /\ req = [r \in Reqs |-> Idle]
    /\ out = NoOut
    /\ redis = "flaky"
    /\ cloudMode = FALSE

NextFlag ==
    \/ Callback(1)
    \/ lookup(1)
    \/ checkConnectionStatus(1)
    \/ getConnectionCredentials(1)
    \/ Token(1)
    \/ selectJiraProject(1)

SpecFlag == InitEstablished /\ [][NextFlag]_vars

\* The callback on its own, each of its awaited calls settling in the end:
\* the handler is run on whenever it can take a step.
NextCallback ==
    \/ getAuthorizationURI(1)
    \/ Callback(1)
    \/ expireState

SpecCallback == Init /\ [][NextCallback]_vars /\ WF_vars(Callback(1))

\* The project selection on connections as the flow leaves them: committed
\* by a callback, with a detail row once a finalize has run.
NextSelect ==
    \/ getAuthorizationURI(1)
    \/ Callback(1)
    \/ Finalize(1)
    \/ selectJiraProject(1)

SpecSelect == Init /\ [][NextSelect]_vars

\* check-status beside the token broker, on a connection that is there
\* and may be re-authorized, with the clock free to pass its expiry.
NextStatus ==
    \/ Callback(1)
    \/ checkConnectionStatus(1)
    \/ Token(1)
    \/ tick

SpecStatus == InitEstablished /\ [][NextStatus]_vars

\* ================================================================== claims
\* The step takes a request of handler op and answers it at once: a request
\* answered later leaves its slot, and changes req, when it is answered.
Answered(op) == req' = req /\ out'.op = op

\* C1: at any time there is at most one connection_external_map row, and so
\* at most one connection, per (external_id, provider), also when two
\* commits for the same new identity race: every connection row is mapped by
\* exactly one map row, so the commit that lost the race left no
\* connection row behind.
C1_OneConnectionPerIdentity ==
    /\ \A m1, m2 \in connectionExternalMap :
         (m1.externalId = m2.externalId /\ m1.provider = m2.provider) => m1 = m2
    /\ \A c1, c2 \in connection : c1.connectionId = c2.connectionId => c1 = c2
    /\ \A c \in connection :
         Cardinality({m \in connectionExternalMap :
                         m.connectionId = c.connectionId}) = 1

\* A callback that looked the identity up, found nothing, and failed to
\* insert because the other callback had committed the identity meanwhile.
C1_RaceLost ==
    /\ out.op = "callback" /\ out.status = 500
    /\ out.conn = 0
    /\ SelectMap(out.ext, "jira") # {}

\* C2: the commit is all-or-nothing.  When the transaction of a commit for
\* a new identity fails (its extension threw), the commit reports failure
\* and no connection, connection_external_map or jira_connection row exists
\* for that connection_id, and no cache entry was written for it; when it
\* reports success, all its rows exist.
C2_CommitAllOrNothing ==
    (out.op = "commit" /\ out.isNew) =>
        IF out.status = 200
        THEN /\ SelectConnection(out.conn) # {}
             /\ SelectMap(out.ext, "jira") =
                    {MapRow(out.ext, "jira", out.conn)}
             /\ out.site # Undef => SelectJira(out.conn) # {}
        ELSE /\ SelectConnection(out.conn) = {}
             /\ \A m \in connectionExternalMap : m.connectionId # out.conn
             /\ SelectJira(out.conn) = {}
             /\ \A k \in DOMAIN connIdCache : connIdCache[k] # out.conn
             /\ detailsCache[out.conn] = NoDetails
             /\ jiraCache[out.conn] = NoJira
             /\ accessTokenCache[out.conn] = 0

\* A commit for a new identity, with a jira_connection extension, failed,
\* while the store already holds another connection.
C2_FailedNewCommit ==
    /\ out.op = "commit" /\ out.isNew /\ out.site # Undef
    /\ out.status = 500
    /\ connection # {}

\* C3: during get-access-token's refresh the invalid_refresh_token flag of
\* a connection is set to true if and only if the provider's token endpoint
\* answered 403 with error invalid_grant.  A step changes a stored flag only
\* as the mark-invalid write of a request that got that answer, and that
\* write, when it goes through, leaves the flag true; after a timeout or any
\* other provider error no write is issued and the tables stay as they are.
C3_Step ==
    /\ \A c \in connection, d \in connection' :
         (c.connectionId = d.connectionId
            /\ c.invalidRefreshToken # d.invalidRefreshToken) =>
            /\ d.invalidRefreshToken
            /\ \E r \in Reqs :
                 /\ At(r, "token", "mark")
                 /\ req[r].conn = c.connectionId
                 /\ req[r].grant = Grant(403, "invalid_grant")
    /\ \A r \in Reqs :
         (At(r, "token", "refresh") /\ req'[r] # req[r]) =>
            /\ UNCHANGED dbVars
            /\ IF out'.grant = Grant(403, "invalid_grant")
                  THEN req'[r].pc = "mark" /\ req'[r].conn = req[r].conn
                  ELSE req'[r].pc \in {"idle", "persist"}
    /\ \A r \in Reqs :
         (At(r, "token", "mark") /\ req'[r].pc = "cache") =>
            \A d \in connection' :
                d.connectionId = req[r].conn => d.invalidRefreshToken
C3_FlagIffInvalidGrant == [][C3_Step]_vars

\* A stored connection marked invalid.
C3_Marked == \E c \in connection : c.invalidRefreshToken

\* C4: for every (provider, external_id), a lookup by external identity
\* after a successful commit returns the connection_id the commit returned,
\* whether the connection-id cache entry is present or was evicted or never
\* written: the commit leaves the identity mapped to the id it returned, a
\* mapped identity resolves to its map row's id with any cache content the
\* program can produce, and a lookup answers with that id.
C4_LookupAfterCommit ==
    /\ (out.op \in {"callback", "finalize"} /\ out.status = 200) =>
         /\ SelectMap(out.ext, "jira") = {MapRow(out.ext, "jira", out.conn)}
         /\ getConnectionID(out.ext, "jira") = out.conn
    /\ \A ext \in ExternalIds : \A m \in SelectMap(ext, "jira") :
         /\ connIdCache[<<"jira", ext>>] \in {0, m.connectionId}
         /\ getConnectionID(ext, "jira") = m.connectionId
    /\ (out.op = "lookup" /\ SelectMap(out.ext, "jira") # {}) =>
         /\ out.status = 200
         /\ SelectMap(out.ext, "jira") = {MapRow(out.ext, "jira", out.conn)}

\* A lookup answered with the committed id while the cache held no entry
\* for the identity.
C4_LookupWithoutCache ==
    /\ out.op = "lookup" /\ out.status = 200
    /\ connIdCache[<<"jira", out.ext>>] = 0
    /\ SelectMap(out.ext, "jira") = {MapRow(out.ext, "jira", out.conn)}

\* C5: a handoff code is single-use.  Once a finalize has committed with
\* code C and deleted it, C resolves to nothing, and every finalize request
\* that arrives later with C ends at once with NotFound (InvalidInput when
\* it names no site) and writes no table.
C5_Step ==
    /\ \A c \in consumed : getConnectionDetailsFromConnectionCode(c) = NoBody
    /\ (Answered("finalize") /\ out'.code \in consumed) =>
            /\ out'.status = 400
            /\ out'.err = IF out'.site = Undef THEN "InvalidInput" ELSE "NotFound"
            /\ UNCHANGED dbVars
    /\ \A r \in Reqs :
         (Free(r) /\ req'[r].op = "finalize") => req'[r].code \notin consumed
C5_SingleUse == [][C5_Step]_vars

\* A finalize with a consumed code was turned down.
C5_Replayed ==
    /\ out.op = "finalize" /\ out.err = "NotFound"
    /\ out.code \in consumed

\* C6: a callback whose state is not in the cache (never issued, or
\* expired) fails with InvalidOrExpiredState: the request ends there, so it
\* calls no token endpoint, and the step writes no table and issues no
\* handoff code.
C6_Step ==
    \A n \in Nonces :
        stateCache[n] = Absent =>
            /\ \A r \in Reqs :
                 ~(Free(r) /\ req'[r].op = "callback" /\ req'[r].nonce = n)
            /\ (Answered("callback") /\ out'.prov \in Providers
                    /\ out'.nonce = n) =>
                   /\ out'.status = 400
                   /\ out'.err = "InvalidOrExpiredState"
                   /\ UNCHANGED <<dbVars, codeCache, issued, nextUUID>>
C6_UnknownStateRejected == [][C6_Step]_vars

\* A callback was turned down for a state that initiate had issued and that
\* has expired since.
C6_ExpiredState ==
    /\ out.op = "callback" /\ out.err = "InvalidOrExpiredState"
    /\ out.nonce \in 1..nextUUID.nonce

\* C10: a handoff code is deleted only after the commit it triggered has
\* succeeded.  A finalize whose commit fails answers 500 and leaves the code
\* cache and the tables as they were, so a retried finalize resolves the
\* code as before; and a step of a request deletes a code only as the last
\* step of a finalize whose commit is in the tables.
C10_Step ==
    /\ \A r \in Reqs :
         (At(r, "finalize", "commit") /\ req'[r] = Idle) =>
            /\ out'.op = "finalize" /\ out'.status = 500
            /\ out'.code = req[r].code
            /\ UNCHANGED <<codeCache, consumed, dbVars>>
    /\ \A c \in Codes :
         (codeCache[c] # NoBody /\ codeCache'[c] = NoBody /\ req' # req) =>
            \E r \in Reqs :
                /\ At(r, "finalize", "post")
                /\ req[r].code = c
                /\ \E j \in SelectJira(req[r].conn) : j.jiraSiteId = req[r].site
                /\ \E k \in SelectConnection(req[r].conn) :
                       k.refreshToken = req[r].tok /\ k.expiresAt = req[r].exp
C10_DeleteAfterCommit == [][C10_Step]_vars

\* A finalize failed in its commit and its code is still there.
C10_FailedFinalizeKeepsCode ==
    /\ out.op = "finalize" /\ out.status = 500
    /\ codeCache[out.code] # NoBody

\* C7: for a new identity the sequence initiate, callback, resolve code C,
\* finalize C with a site ends with the finalize reporting success and
\* exactly one connection row, one connection_external_map row and one
\* jira_connection row (with that site) for the identity; a get-access-token
\* call afterwards needs no other authorization-code exchange: the token
\* handler never runs the exchange, touches no state nonce, handoff code, map
\* or jira row, finds the connection, asks for reauthorization before any
\* clock jump only if the stored flag is set, and answers 200 with a token.
C7_Step ==
    /\ (out'.op = "finalize" /\ out'.status = 200) =>
         /\ Cardinality({c \in connection' : c.connectionId = out'.conn}) = 1
         /\ {m \in connectionExternalMap' :
                m.externalId = out'.ext \/ m.connectionId = out'.conn}
              = {MapRow(out'.ext, "jira", out'.conn)}
         /\ Cardinality({j \in jiraConnection' : j.connectionId = out'.conn}) = 1
         /\ \A j \in jiraConnection' :
                j.connectionId = out'.conn => j.jiraSiteId = out'.site
    /\ \A r \in Reqs :
         (\/ req'[r] # req[r] /\ (req[r].op = "token" \/ req'[r].op = "token")
          \/ Answered("token")) =>
            /\ UNCHANGED <<stateCache, codeCache, nextUUID,
                           connectionExternalMap, jiraConnection>>
            /\ req'[r].op = "token" =>
                  req'[r].pc \in {"refresh", "persist", "mark", "cache"}
    /\ (Answered("token") /\ out'.prov \in Providers
            /\ SelectMap(out'.ext, "jira") # {}) =>
         /\ out'.err \notin {"NotFound", "ConnectionNotFound"}
         /\ (out'.err = "NeedsReauthorization" /\ now = 0) =>
                \E c \in SelectConnection(out'.conn) : c.invalidRefreshToken
    /\ (out'.op = "token" /\ out'.status = 200) => out'.acc \in Toks
TokenArrives(ext) ==
    \/ /\ Answered("token") /\ out'.prov \in Providers /\ out'.ext = ext
       /\ verifySecretKey(out'.auth)
    \/ \E r \in Reqs : Free(r) /\ req'[r].op = "token" /\ req'[r].ext = ext

\* C8 as stated: on an access-token cache miss, if the stored connection
\* has invalid_refresh_token set or its expires_at has passed, the call
\* fails with NeedsReauthorization, calls no refresh endpoint and changes
\* neither the connection nor the cache.
C8_StatedStep ==
    \A ext \in ExternalIds :
        LET id == getConnectionID(ext, "jira")
        IN  (/\ TokenArrives(ext)
             /\ id # 0
             /\ accessTokenCache[id] = 0
             /\ \E c \in SelectConnection(id) :
                    c.invalidRefreshToken \/ c.expiresAt < now) =>
                /\ Answered("token")
                /\ out'.status = 401 /\ out'.err = "NeedsReauthorization"
                /\ UNCHANGED <<dbVars, cacheVars, issued>>
C8_Stated == [][C8_StatedStep]_vars

\* C8, amended: on an access-token cache miss, if the connection detail the
\* call loads (the cached copy if there is one, else the stored row) has
\* invalid_refresh_token set or an expires_at that has passed, the call
\* fails with NeedsReauthorization in that step, so without a call to the
\* refresh endpoint, and changes no table and no access-token, state, code
\* or jira cache entry; its reads may fill the connection-id and the
\* connection-details cache entry with what the store holds.
C8_Step ==
    \A ext \in ExternalIds :
        LET id == getConnectionID(ext, "jira")
            d == getConnectionDetails(id)
        IN  (/\ TokenArrives(ext)
             /\ id # 0
             /\ accessTokenCache[id] = 0
             /\ d # NoRow
             /\ (d.invalidRefreshToken \/ d.expiresAt < now)) =>
                /\ Answered("token")
                /\ out'.status = 401 /\ out'.err = "NeedsReauthorization"
                /\ out'.grant = NoGrant
                /\ UNCHANGED <<dbVars, accessTokenCache, stateCache, codeCache,
                               jiraCache, issued>>
                /\ connIdCache' \in
                     {connIdCache, [connIdCache EXCEPT ![<<"jira", ext>>] = id]}
                /\ \/ detailsCache' = detailsCache
                   \/ /\ detailsCache[id] = NoDetails
                      /\ d \in SelectConnection(id)
                      /\ detailsCache' =
                            [detailsCache EXCEPT ![id] = JSONStringify(d)]
C8_NeedsReauthorizationWithoutRefresh == [][C8_Step]_vars

\* A call was turned down for a connection whose expires_at has passed, and
\* the details cache holds the row the call read from the store.
C8_ExpiredTurnedDown ==
    /\ out.op = "token" /\ out.err = "NeedsReauthorization"
    /\ out.grant = NoGrant
    /\ \E c \in SelectConnection(out.conn) :
          /\ c.expiresAt < now /\ ~c.invalidRefreshToken
          /\ detailsCache[out.conn] = JSONStringify(c)

\* C9 as stated: for a stored connection with expires_at in the past and
\* invalid_refresh_token false, get-access-token attempts a refresh, and
\* NeedsReauthorization is returned only when that refresh yields an
\* invalid-grant error.
C9_StatedStep ==
    /\ \A ext \in ExternalIds :
         LET id == getConnectionID(ext, "jira")
         IN  (/\ TokenArrives(ext)
              /\ id # 0
              /\ accessTokenCache[id] = 0
              /\ \E c \in SelectConnection(id) :
                     c.expiresAt < now /\ ~c.invalidRefreshToken) =>
                 \E r \in Reqs : req'[r].op = "token" /\ req'[r].pc = "refresh"
    /\ \A c \in connection :
         (/\ out'.op = "token" /\ out' # out
          /\ out'.err = "NeedsReauthorization"
          /\ c.connectionId = out'.conn
          /\ c.expiresAt < now /\ ~c.invalidRefreshToken) =>
             out'.grant = Grant(403, "invalid_grant")
C9_Stated == [][C9_StatedStep]_vars

\* C9, amended: get-access-token attempts a refresh, on an access-token
\* cache miss, exactly when the connection detail it loads has
\* invalid_refresh_token false and an expires_at that has not passed; a
\* connection whose expires_at has passed is answered NeedsReauthorization
\* without a refresh attempt.  If the provider accepts the refresh token the
\* call answers 200 with the new access token, and the store update left
\* running, when it goes through, moves the stored expires_at to the loaded
\* expires_at plus (expires_in - 300) seconds and stores the new refresh
\* token.  After a refresh attempt NeedsReauthorization is answered only to
\* a 403 invalid_grant.
C9_Step ==
    /\ \A ext \in ExternalIds :
         LET id == getConnectionID(ext, "jira")
             d == getConnectionDetails(id)
         IN  (/\ TokenArrives(ext)
              /\ id # 0
              /\ accessTokenCache[id] = 0
              /\ d # NoRow) =>
                 IF d.expiresAt < now \/ d.invalidRefreshToken
                 THEN /\ Answered("token")
                      /\ out'.err = "NeedsReauthorization"
                 ELSE \E r \in Reqs :
                        /\ Free(r)
                        /\ req'[r].op = "token" /\ req'[r].pc = "refresh"
                        /\ req'[r].conn = id
                        /\ req'[r].tok = d.refreshToken
                        /\ req'[r].exp = d.expiresAt
    /\ \A r \in Reqs :
         (At(r, "token", "refresh") /\ req'[r] # req[r]) =>
            IF out'.grant = Grant(200, "none")
            THEN /\ out'.status = 200 /\ out'.acc \in Toks
                 /\ out'.ttl \in {e - 300 : e \in ExpiresInValues}
                 /\ req'[r] = [req[r] EXCEPT !.pc = "persist", !.acc = out'.acc,
                                  !.tok = out'.acc, !.ttl = out'.ttl,
                                  !.grant = out'.grant]
            ELSE /\ out'.status = 401
                 /\ out'.err = "NeedsReauthorization"
                        <=> out'.grant = Grant(403, "invalid_grant")
    /\ \A r \in Reqs :
         (At(r, "token", "persist") /\ req'[r].pc = "cache") =>
            \A c \in connection' :
                c.connectionId = req[r].conn =>
                    /\ c.expiresAt = req[r].exp + req[r].ttl
                    /\ c.refreshToken = req[r].tok
C9_RefreshOnlyBeforeExpiry == [][C9_Step]_vars

\* A refresh went through and moved the stored expires_at past a lifetime
\* counted from the exchange.
C9_Extended ==
    \E r \in Reqs :
        /\ At(r, "token", "cache")
        /\ req[r].grant = Grant(200, "none")
        /\ \E c \in SelectConnection(req[r].conn) :
              /\ c.expiresAt # ConnectionLifetime
              /\ c.expiresAt = req[r].exp + req[r].ttl
              /\ c.refreshToken = req[r].tok

\* C11: resolving a handoff code never deletes or changes it.  A
\* fetch-available-sites request, whatever it answers, and the resolve step
\* of a finalize leave the code cache (and every table and other cache) as it
\* was, so a code that resolved still resolves to the same payload afterwards.
C11_Step ==
    /\ Answered("sites") =>
         /\ UNCHANGED <<codeCache, consumed, dbVars, cacheVars>>
         /\ out'.err \notin {"InvalidInput", "NotFound"} =>
               /\ codeCache'[out'.code] # NoBody
               /\ codeCache'[out'.code].connection_id = out'.conn
    /\ \A r \in Reqs :
         (Free(r) /\ req'[r].op = "finalize") =>
            /\ UNCHANGED <<codeCache, consumed>>
            /\ codeCache'[req'[r].code] # NoBody
    /\ (Answered("finalize") /\ out'.status = 400) =>
         UNCHANGED <<codeCache, consumed>>
C11_ResolveKeepsCode == [][C11_Step]_vars

\* The sites of a code were fetched and the code still resolves.
C11_SitesFetched ==
    /\ out.op = "sites" /\ out.status = 200
    /\ getConnectionDetailsFromConnectionCode(out.code) # NoBody
    /\ getConnectionDetailsFromConnectionCode(out.code).connection_id = out.conn

\* C12: a successful callback does not commit.  No step of a callback
\* writes a table, and when a callback has answered with success no
\* connection row holds the refresh token of the grant it exchanged: the
\* grant is in the handoff-code cache entry alone.
C12_Step ==
    /\ \A r \in Reqs :
         (req'[r] # req[r] /\ req[r].op = "callback") => UNCHANGED dbVars
    /\ (out'.op = "callback" /\ out'.status = 200 /\ out' # out) =>
         \A c \in connection' : c.refreshToken # out'.acc
C12_CallbackDoesNotCommit == [][C12_Step]_vars

\* C13: every backend-facing operation (check-status, get-credentials,
\* get-access-token) whose authorization header is missing, is not a
\* well-formed Bearer header, or carries a key other than the configured
\* secret fails as Unauthorized: it answers 401 at once, looks no connection
\* up (no connection-id or connection-details cache entry is filled, nothing
\* else changes) and its answer carries no connection id, no connection data
\* and no token; no such request goes on to the provider.
C13_Step ==
    /\ \A op \in {"status", "credentials", "token"} :
         (/\ Answered(op)
          /\ out'.prov \in Providers /\ out'.ext # Undef
          /\ out'.auth # <<"Bearer", JUNCTURE_SECRET_KEY>>) =>
            /\ out'.status = 401 /\ out'.err = "Unauthorized"
            /\ out'.conn = 0 /\ out'.acc = 0 /\ out'.data = NoData
            /\ UNCHANGED <<dbVars, cacheVars, issued, nextUUID>>
    /\ \A r \in Reqs :
         (Free(r) /\ ~Free(r)' /\ req'[r].op = "token") =>
            req'[r].auth = <<"Bearer", JUNCTURE_SECRET_KEY>>
StoreConnectionID(ext) ==
    IF SelectMap(ext, "jira") = {} THEN 0
    ELSE (CHOOSE m \in SelectMap(ext, "jira") : TRUE).connectionId
StoreDetails(id) ==
    IF SelectConnection(id) = {} THEN NoRow
    ELSE CHOOSE c \in SelectConnection(id) : TRUE

\* What get-access-token does on arrival when every cache read misses: it
\* answers NeedsReauthorization if the stored row is invalid or expired, and
\* else goes to the provider with the stored refresh token.
TokenFromStoreAlone(ext) ==
    LET id == StoreConnectionID(ext)
        d == StoreDetails(id)
    IN  IF d.invalidRefreshToken \/ d.expiresAt < now
        THEN /\ Answered("token")
             /\ out'.status = 401 /\ out'.err = "NeedsReauthorization"
             /\ UNCHANGED dbVars
        ELSE \E r \in Reqs :
               /\ Free(r)
               /\ req'[r].op = "token" /\ req'[r].pc = "refresh"
               /\ req'[r].conn = id
               /\ req'[r].tok = d.refreshToken /\ req'[r].exp = d.expiresAt

\* Lookup by external identity, read full detail and commit answer and write
\* what the store alone determines, with redis up as with redis down.
C14_StoreOperations ==
    /\ (\A r \in Reqs : Free(r)) =>
         /\ \A ext \in ExternalIds :
              getConnectionID(ext, "jira") = StoreConnectionID(ext)
         /\ \A id \in ConnIds : getConnectionDetails(id) = StoreDetails(id)
    /\ Answered("lookup") =>
         /\ out'.conn = StoreConnectionID(out'.ext)
         /\ out'.status = IF out'.conn = 0 THEN 401 ELSE 200
         /\ UNCHANGED dbVars
    /\ (/\ Answered("credentials")
        /\ out'.prov \in Providers /\ out'.ext # Undef
        /\ out'.auth = <<"Bearer", JUNCTURE_SECRET_KEY>>) =>
         /\ out'.conn = StoreConnectionID(out'.ext)
         /\ IF out'.conn = 0
              THEN out'.status = 401 /\ out'.data = NoData
              ELSE /\ out'.status = 200
                   /\ LET d == StoreDetails(out'.conn)
                      IN  out'.data = ConnectionData(TRUE, d.invalidRefreshToken,
                                          d.refreshToken, d.expiresAt)
         /\ UNCHANGED dbVars
    /\ Answered("commit") =>
         IF out'.status = 200
         THEN \A c \in {k \in connection' : k.connectionId = out'.conn} :
                 /\ c.expiresAt = now + ConnectionLifetime
                 /\ c.refreshToken = issued'
         ELSE UNCHANGED dbVars

\* C14 as stated: the cache is a discardable projection.  For lookup by
\* external identity, read full detail, commit and get-access-token, a
\* sequence of operations yields the same results and the same tables
\* against a redis in which every read misses and every write is dropped as
\* against one that works: every operation answers and writes what the store
\* alone determines.
C14_StatedStep ==
    /\ C14_StoreOperations
    /\ \A ext \in ExternalIds :
         (TokenArrives(ext) /\ StoreConnectionID(ext) # 0) =>
            TokenFromStoreAlone(ext)
C14_Stated == [][C14_StatedStep]_vars

\* C14, amended: for lookup by external identity, read full detail and
\* commit, a sequence of operations yields the same results and the same
\* tables against a redis that is down as against one that works.
\* get-access-token does so only when the access-token cache has no entry
\* for the connection: on a hit it answers with the cached token and leaves
\* the tables alone, where with redis down it asks the provider for a new
\* token and rotates the stored refresh token and expiry.
C14_Step ==
    /\ C14_StoreOperations
    /\ \A ext \in ExternalIds :
         (/\ TokenArrives(ext) /\ StoreConnectionID(ext) # 0
          /\ accessTokenCache[StoreConnectionID(ext)] = 0) =>
            TokenFromStoreAlone(ext)
    /\ \A ext \in ExternalIds :
         (/\ TokenArrives(ext) /\ StoreConnectionID(ext) # 0
          /\ accessTokenCache[StoreConnectionID(ext)] # 0) =>
            /\ Answered("token")
            /\ out'.status = 200
            /\ out'.acc = accessTokenCache[StoreConnectionID(ext)]
            /\ UNCHANGED dbVars
C14_DiscardableProjection == [][C14_Step]_vars

\* With redis up, the credentials of a connection were read from the
\* details cache and are those the store holds.
C14_ReadFromCache ==
    /\ redis = "up"
    /\ out.op = "credentials" /\ out.status = 200
    /\ detailsCache[out.conn] # NoDetails
    /\ \E c \in SelectConnection(out.conn) :
          /\ out.data.refreshToken = c.refreshToken
          /\ SelectConnection(out.conn) = {c}
    /\ issued = 2

\* C15: a successful re-authorization overwrites the invalid flag.  When a
\* connection was marked invalid and a finalize then commits, with success
\* and an expiry that has not passed, a grant that a later callback
\* exchanged for the same identity, the connection is no longer invalid: a
\* read of its full detail reports invalid_refresh_token = false, and
\* get-access-token, on a cache miss, goes on to a refresh.
C15_Step ==
    \A r \in Reqs :
        (/\ At(r, "finalize", "commit") /\ req'[r].pc = "post"
         /\ marked[req[r].conn] # 0
         /\ req[r].tok > marked[req[r].conn]
         /\ req[r].exp >= now) =>
            /\ \A c \in connection' :
                 c.connectionId = req[r].conn => ~c.invalidRefreshToken
C15_ReauthorizationClearsFlag == [][C15_Step]_vars

\* C16 as stated: once a connection's invalid flag has been set, and until
\* a later grant is committed for it, every get-access-token request for it
\* fails with NeedsReauthorization, whatever else is in flight.
C16_StatedStep ==
    \A ext \in ExternalIds, id \in ConnIds :
        (/\ TokenArrives(ext)
         /\ getConnectionID(ext, "jira") = id
         /\ \E c \in SelectConnection(id) :
                c.invalidRefreshToken /\ c.refreshToken <= marked[id]) =>
            /\ Answered("token")
            /\ out'.status = 401 /\ out'.err = "NeedsReauthorization"
C16_Stated == [][C16_StatedStep]_vars

\* The connection is marked invalid and nothing is left that could hide the
\* mark: no cached access token, no cached detail without the flag, and no
\* request in flight for it that is in mid-refresh or carries a row without
\* the flag to the details cache.
Quiet(id) ==
    /\ \E c \in SelectConnection(id) : c.invalidRefreshToken
    /\ accessTokenCache[id] = 0
    /\ detailsCache[id] # NoDetails => detailsCache[id].invalidRefreshToken
    /\ \A r \in Reqs :
          \/ Free(r)
          \/ req[r].conn # id
          \/ At(r, "token", "mark")
          \/ req[r].op \in {"callback", "finalize"} /\ req[r].pc = "commit"
          \/ /\ req[r].pc \in {"cache", "post"}
             /\ \A row \in req[r].rows : row.invalidRefreshToken

\* The step is the successful commit of a callback or a finalize for id.
CommitStep(id) ==
    \E r \in Reqs :
        /\ req[r].op \in {"callback", "finalize"} /\ req[r].pc = "commit"
        /\ req'[r].pc = "post" /\ req'[r].conn = id

\* C16, amended: once a connection's invalid flag is set and nothing hides
\* it (the access-token cache holds no token for the connection, the
\* details cache holds no copy without the flag, and no request for it is in
\* mid-refresh or about to cache an unflagged row), every get-access-token
\* request for it fails with NeedsReauthorization without a call to the
\* refresh endpoint, and no step other than the commit of a new
\* authorization flow ends that condition, whatever requests interleave.
C16_Step ==
    \A ext \in ExternalIds, id \in ConnIds :
        (getConnectionID(ext, "jira") = id /\ Quiet(id)) =>
            /\ TokenArrives(ext) =>
                 /\ Answered("token")
                 /\ out'.status = 401 /\ out'.err = "NeedsReauthorization"
                 /\ out'.grant = NoGrant
            /\ ~CommitStep(id) => Quiet(id)'
C16_MarkInvalidIsTerminal == [][C16_Step]_vars

\* A request was turned down for a marked connection with nothing hiding
\* the mark, while another request is in flight.
C16_TurnedDownWhileBusy ==
    /\ out.op = "token" /\ out.err = "NeedsReauthorization"
    /\ out.grant = NoGrant
    /\ out.conn \in ConnIds /\ Quiet(out.conn) /\ marked[out.conn] # 0
    /\ \E r \in Reqs : ~Free(r)

\* C17: when the provider's refresh call fails with anything other than an
\* invalid-grant response (status 403 with error invalid_grant),
\* get-access-token answers RefreshFailed and the request ends there: no
\* table and no cache entry changes, so refresh_token, expires_at and the
\* invalid flag are as before, no access token is cached, and nothing is
\* left running.
C17_Step ==
    \A r \in Reqs :
        (/\ At(r, "token", "refresh")
         /\ req'[r] # req[r]
         /\ out'.grant.status # 200
         /\ ~(/\ out'.grant.status = InvalidGrantStatus
              /\ out'.grant.error = "invalid_grant")) =>
            /\ out'.op = "token" /\ out'.conn = req[r].conn
            /\ out'.status = 401 /\ out'.err = "RefreshFailed"
            /\ out'.acc = 0
            /\ req'[r] = Idle
            /\ UNCHANGED <<dbVars, cacheVars, issued>>
C17_TransientRefreshFailure == [][C17_Step]_vars

\* The provider turned a refresh down with 403 access_denied: the call
\* answered RefreshFailed and the connection is not marked, still carries
\* the grant of the callback, and has no cached access token.
C17_RefreshFailedUnmarked ==
    /\ out.op = "token" /\ out.err = "RefreshFailed"
    /\ out.grant = Grant(InvalidGrantStatus, "access_denied")
    /\ \E c \in SelectConnection(out.conn) :
          ~c.invalidRefreshToken /\ c.refreshToken = 1
    /\ accessTokenCache[out.conn] = 0
    /\ \A r \in Reqs : Free(r)

\* C18: on a successful refresh get-access-token answers 200 with the
\* provider's new access token and leaves two writes running: the token
\* under the connection's key of the access-token cache, and the provider's
\* rotated refresh_token with an expires_at moved on from the loaded one by
\* the token's lifetime to the connection's row.  Either write may fail;
\* neither sends another response, so the 200 stands.
C18_Step ==
    \A r \in Reqs :
        /\ (At(r, "token", "refresh") /\ out'.grant.status = 200) =>
              /\ out'.op = "token" /\ out'.status = 200 /\ out'.err = "none"
              /\ out'.conn = req[r].conn
              /\ out'.acc = issued' /\ issued' = issued + 1
              /\ req'[r].pc = "persist"
              /\ req'[r].conn = req[r].conn /\ req'[r].exp = req[r].exp
              /\ req'[r].acc = out'.acc /\ req'[r].tok = issued'
              /\ req'[r].ttl \in {e - AccessTokenSkew : e \in ExpiresInValues}
              /\ UNCHANGED <<dbVars, cacheVars>>
        /\ (At(r, "token", "persist") /\ req'[r] # req[r]) =>
              LET q == req[r]
              IN  /\ out' = NoOut
                  /\ accessTokenCache' \in
                        { accessTokenCache,
                          [accessTokenCache EXCEPT ![q.conn] = q.acc] }
                  /\ connection' \in
                        { connection,
                          { IF c.connectionId = q.conn
                               THEN [c EXCEPT !.refreshToken = q.tok,
                                              !.expiresAt = q.exp + q.ttl]
                               ELSE c : c \in connection } }
                  /\ UNCHANGED <<connectionExternalMap, jiraConnection,
                                 projectConnectionMap>>
IdentityConnection(ext, project) ==
    IF cloudMode
        THEN LET rows == {o \in projectConnectionMap :
                            /\ o.projectId = project /\ o.externalId = ext
                            /\ o.provider = "jira"}
             IN  IF rows = {} THEN 0 ELSE (CHOOSE o \in rows : TRUE).connectionId
    ELSE IF SelectMap(ext, "jira") = {} THEN 0
    ELSE (CHOOSE m \in SelectMap(ext, "jira") : TRUE).connectionId

\* C19: in single-tenant and in multi-tenant mode alike, a commit takes the
\* insert path exactly when no connection exists for the identity
\* (external_id, provider[, tenant]) and the update path exactly when one
\* exists.  The callback's commit goes for an insert exactly when the
\* identity has no connection; finalize always goes for an update and its
\* identity always has the connection it updates.  A commit that succeeds
\* on the insert path adds one Connection row and its ExternalMap row (and
\* in multi-tenant mode the ownership row) under a fresh id; one that
\* succeeds on the update path rewrites refresh_token and expires_at of the
\* existing connection and adds no Connection, ExternalMap or ownership row;
\* one that fails changes no row.
C19_Step ==
    \A r \in Reqs :
        (req[r].op \in {"callback", "finalize"} /\ req[r].pc = "commit"
            /\ req'[r] # req[r]) =>
          LET q == req[r]
              existing == IdentityConnection(q.ext, q.project)
              ids == {c.connectionId : c \in connection}
          IN  /\ q.op = "callback" => (q.conn = 0 <=> existing = 0)
              /\ q.op = "finalize" => (existing # 0 /\ q.conn = existing)
              /\ req'[r].pc # "post" => UNCHANGED dbVars
              /\ (req'[r].pc = "post" /\ existing # 0) =>
                    /\ req'[r].conn = existing
                    /\ connection' =
                          { IF c.connectionId = existing
                               THEN [c EXCEPT !.refreshToken = q.tok,
                                              !.expiresAt = q.exp]
                               ELSE c : c \in connection }
                    /\ UNCHANGED <<connectionExternalMap, projectConnectionMap>>
              /\ (req'[r].pc = "post" /\ existing = 0) =>
                    /\ req'[r].conn \in ConnIds \ ids
                    /\ connection' = connection \cup
                          {ConnRow(req'[r].conn, q.tok, q.exp, FALSE)}
                    /\ connectionExternalMap' = connectionExternalMap \cup
                          {MapRow(q.ext, "jira", req'[r].conn)}
                    /\ projectConnectionMap' =
                          IF cloudMode
                             THEN projectConnectionMap \cup
                                    {ProjectRow(q.project, q.ext, "jira",
                                                req'[r].conn)}
                             ELSE projectConnectionMap
C20_ReferentialIntegrity ==
    /\ \A m \in connectionExternalMap : SelectConnection(m.connectionId) # {}
    /\ \A j \in jiraConnection : SelectConnection(j.connectionId) # {}
    /\ \A c \in connection :
          \E m \in connectionExternalMap : m.connectionId = c.connectionId

\* A commit has just failed in a store that holds a connection with its
\* map row and its jira row.
C20_FailedCommitOverRows ==
    /\ out.op = "commit" /\ out.status = 500
    /\ connection # {} /\ connectionExternalMap # {} /\ jiraConnection # {}

\* C21: initiate rejects bad input before doing anything.  When the
\* provider is not a supported one or the external_id is missing, the call
\* fails with InvalidInput, stores no state nonce and returns no
\* authorization URL (no nonce is handed out).
C21_Step ==
    (/\ Answered("initiate")
     /\ (out'.prov \notin Providers \/ out'.ext = Undef)) =>
        /\ out'.status = 400 /\ out'.err = "InvalidInput"
        /\ out'.nonce = 0
        /\ UNCHANGED <<stateCache, nextUUID>>
C21_InitiateRejectsBadInput == [][C21_Step]_vars

\* C22: a get-access-token failure tells NeedsReauthorization apart from
\* ConnectionNotFound and from RefreshFailed by a marker of its own, and
\* the endpoint answers it with a status it uses for no other failure of
\* the token helper.
C22_ReauthorizationSurfacedDistinctly ==
    (out.op = "token" /\ out.err = "NeedsReauthorization") =>
        /\ out.err \in HelperErrors
        /\ \A other \in HelperErrors \ {"NeedsReauthorization"} :
              out.status # getAccessTokenErrorStatus(other)

Stale(id) ==
    /\ detailsCache[id] # NoDetails
    /\ ParseCachedDetails(detailsCache[id]) \notin SelectConnection(id)

\* C24 as stated: once every request in flight has completed, every cached
\* connection-detail entry equals the stored Connection row in
\* refresh_token, expires_at and invalid flag.
C24_Stated ==
    (\A r \in Reqs : Free(r)) => \A id \in ConnIds : ~Stale(id)

\* C24, amended: no cached connection-detail entry is stale for good.  An
\* entry that differs from the stored row (its refreshing write was lost, or
\* an older write landed after a newer one) may outlast the requests that
\* made it so, but only until it is rewritten or its TTL runs out; from then
\* on reads find the stored row.
C24_StaleEntriesExpire ==
    \A id \in ConnIds : Stale(id) ~> ~Stale(id)

\* Every request has completed and the cached detail still lacks the invalid
\* flag the stored row carries.
C24_StaleAtRest ==
    /\ \A r \in Reqs : Free(r)
    /\ \E id \in ConnIds :
          /\ Stale(id)
          /\ ~detailsCache[id].invalidRefreshToken
          /\ \E c \in SelectConnection(id) : c.invalidRefreshToken

C25_Step ==
    \A r \in Reqs :
        LET q == req[r]
            flagged(S) == {c.connectionId : c \in {k \in S : k.invalidRefreshToken}}
        IN  /\ (At(r, "token", "persist") /\ req'[r].pc = "cache") =>
                  (/\ q.tok \in 1..issued
                   /\ q.tok <= rotated[q.conn]
                   /\ \A c \in connection' :
                         c.connectionId = q.conn => c.refreshToken = q.tok)
            /\ (At(r, "token", "persist") /\ req'[r] = Idle) =>
                  connection' = connection
            /\ (req'[r] # q /\ flagged(connection') # flagged(connection)) =>
                  (/\ At(r, "token", "mark")
                   /\ q.grant = Grant(InvalidGrantStatus, "invalid_grant")
                   /\ flagged(connection') = flagged(connection) \cup {q.conn}
                   /\ \A c \in connection' :
                         \E k \in connection :
                             k = [c EXCEPT !.invalidRefreshToken =
                                               k.invalidRefreshToken])
C26_Step ==
    \A r \in Reqs :
        LET q == req'[r]
            reported ==
                \/ /\ Free(r) /\ req' = req
                   /\ out'.op = "commit" /\ out'.status = 200
                \/ /\ At(r, "callback", "commit") /\ q.pc = "post"
                \/ /\ At(r, "finalize", "commit") /\ q.pc = "post"
            c == IF Free(r) THEN out' ELSE q
        IN  reported =>
                /\ \E k \in connection' :
                      /\ k.connectionId = c.conn
                      /\ k.refreshToken = (IF Free(r) THEN issued' ELSE c.tok)
                      /\ (~Free(r) => k.expiresAt = c.exp)
                /\ MapRow(c.ext, "jira", c.conn) \in connectionExternalMap'
C27_RefreshesNotDeduplicated ==
    \A r \in Reqs : \A s \in Reqs \ {r} :
        (/\ At(s, "token", "refresh") /\ Free(r)
         /\ getConnectionID(req[s].ext, "jira") = req[s].conn
         /\ accessTokenCache[req[s].conn] = 0
         /\ getConnectionDetails(req[s].conn) # NoRow
         /\ ~IsInvalid(getConnectionDetails(req[s].conn))
         /\ getConnectionDetails(req[s].conn).refreshToken = req[s].tok) =>
            ENABLED (/\ Token(r)
                     /\ req'[r].pc = "refresh"
                     /\ req'[r].conn = req[s].conn
                     /\ req'[r].tok = req[s].tok)

\* Two get-access-token requests for one connection have both missed the
\* access-token cache and are both at the provider with the refresh_token
\* the connection stores.
C27_TwoRefreshesInFlight ==
    /\ At(1, "token", "refresh") /\ At(2, "token", "refresh")
    /\ req[1].conn = req[2].conn /\ req[1].tok = req[2].tok
    /\ accessTokenCache[req[1].conn] = 0
    /\ \E c \in SelectConnection(req[1].conn) : c.refreshToken = req[1].tok

\* C28: a state nonce is not consumed by a callback.  No step of a callback
\* changes the state cache, so a state that a callback has used stays in
\* the cache; the state check turns a callback down only when its state is
\* not in the cache, so a second callback with the same state is accepted;
\* and the only step that removes a state nonce is the expiry of its key,
\* which answers no request and changes nothing else.
C28_Step ==
    /\ \A r \in Reqs :
          (req'[r] # req[r] /\ "callback" \in {req[r].op, req'[r].op}) =>
              UNCHANGED stateCache
    /\ (Answered("callback") /\ out' # out) =>
          /\ UNCHANGED stateCache
          /\ out'.err = "InvalidOrExpiredState" =>
                stateCache[out'.nonce] = Absent
    /\ \A n \in Nonces :
          (stateCache[n] # Absent /\ stateCache'[n] # stateCache[n]) =>
              /\ stateCache'[n] = Absent
              /\ req' = req /\ out' = NoOut
              /\ UNCHANGED <<dbVars, connIdCache, detailsCache, accessTokenCache,
                             codeCache, jiraCache, nextUUID, issued>>
C28_StateNotConsumed == [][C28_Step]_vars

\* A second callback with the state of an earlier, successful one has just
\* succeeded too, and the state is still in the cache.
C28_StateReplayed ==
    /\ out.op = "callback" /\ out.status = 200
    /\ issued = 2
    /\ stateCache[out.nonce] # Absent
    /\ nextUUID.nonce = 1
    /\ \E c \in connection : c.refreshToken = 2

\* C29: the binding of an identity to a connection never changes.  Every
\* step keeps every ExternalMap row as it is and adds none for an identity
\* that has one, keeps every connection id that has a Connection row, and a
\* callback or finalize commit for an identity that is bound reports the
\* connection id it is bound to.
C29_Step ==
    /\ connectionExternalMap \subseteq connectionExternalMap'
    /\ \A m \in connectionExternalMap' :
          (\E k \in connectionExternalMap :
              k.externalId = m.externalId /\ k.provider = m.provider) =>
                  m \in connectionExternalMap
    /\ {c.connectionId : c \in connection} \subseteq
           {c.connectionId : c \in connection'}
    /\ \A r \in Reqs :
          (/\ req[r].op \in {"callback", "finalize"}
           /\ req[r].pc = "commit" /\ req'[r].pc = "post"
           /\ SelectMap(req[r].ext, "jira") # {}) =>
              MapRow(req[r].ext, "jira", req'[r].conn) \in connectionExternalMap'
C29_BindingNeverChanges == [][C29_Step]_vars

\* An identity was re-authorized and finalized again: its one map row still
\* names the connection, which now holds the second grant and a site.
C29_ReauthorizedAndRefinalized ==
    /\ out.op = "finalize" /\ out.status = 200
    /\ issued = 2
    /\ connectionExternalMap = {MapRow(out.ext, "jira", out.conn)}
    /\ \E c \in connection : c.connectionId = out.conn /\ c.refreshToken = 2
    /\ SelectJira(out.conn) # {}

\* C30: the invalid flag is monotonic.  A connection whose
\* invalid_refresh_token is true still has it true after every step of a
\* lookup, a check-status, a get-credentials, a get-access-token (its
\* refresh persist and its mark included), a select-project and a
\* fetch of the authorization URL; the only step after which it may be
\* false is a re-authorization commit for that connection that succeeded.
C30_Step ==
    \A c \in connection :
        c.invalidRefreshToken =>
            \/ \E k \in connection' : /\ k.connectionId = c.connectionId
                                      /\ k.invalidRefreshToken
            \/ \E r \in Reqs :
                  /\ req[r].op \in {"callback", "finalize"}
                  /\ req[r].pc = "commit" /\ req'[r].pc = "post"
                  /\ req'[r].conn = c.connectionId
C30_InvalidFlagMonotonic == [][C30_Step]_vars

\* A get-access-token that read a stale cache entry has refreshed and
\* persisted the token of a connection that is marked invalid: the row
\* holds the new token and is still marked.
C30_PersistedOverFlag ==
    /\ \E r \in Reqs : At(r, "token", "cache")
    /\ \E c \in connection :
          /\ c.invalidRefreshToken
          /\ rotated[c.connectionId] # 0
          /\ c.refreshToken = rotated[c.connectionId]
          /\ marked[c.connectionId] # 0
          /\ marked[c.connectionId] < rotated[c.connectionId]

\* C31: a Connection's refresh_token and expires_at change only through a
\* successful refresh or a (re-)finalize commit.  A step after which a
\* Connection row that was there holds another refresh_token or expires_at
\* is the persist of a get-access-token refresh that succeeded, or a
\* finalize commit that succeeded, for that connection; mark-invalid,
\* lookup, the reads, check-status, get-credentials, select-project, the
\* callback and every failed operation leave both fields as they were.
C31_Changed(c) ==
    \A k \in connection' :
        k.connectionId = c.connectionId =>
            k.refreshToken # c.refreshToken \/ k.expiresAt # c.expiresAt
C31_Step ==
    \A c \in connection :
        C31_Changed(c) =>
            \E r \in Reqs :
                /\ req[r].conn = c.connectionId
                /\ \/ At(r, "token", "persist") /\ req'[r].pc = "cache"
                   \/ At(r, "finalize", "commit") /\ req'[r].pc = "post"
C31_TokenFieldsFrame == [][C31_Step]_vars

\* C32: lookup by external identity never writes the durable store and is
\* idempotent.  A lookup leaves every table as it was; its result is
\* decided by the ExternalMap alone, whatever the cache holds: NotFound when
\* the identity has no map row, the id of its map row otherwise, so that
\* repeating it with no commit in between gives the same result; and a
\* NotFound result leaves the connection-id cache as it was, with no entry
\* for the identity, so that a lookup after a later commit reads the store.
C32_Step ==
    Answered("lookup") =>
        /\ UNCHANGED dbVars
        /\ out'.ext \in ExternalIds
        /\ IF SelectMap(out'.ext, "jira") = {}
              THEN /\ out'.status = 401 /\ out'.err = "NotFound"
                   /\ out'.conn = 0
                   /\ UNCHANGED connIdCache
                   /\ connIdCache'[<<"jira", out'.ext>>] = 0
              ELSE /\ out'.status = 200
                   /\ MapRow(out'.ext, "jira", out'.conn) \in connectionExternalMap
                   /\ connIdCache'[<<"jira", out'.ext>>] \in {0, out'.conn}
C32_LookupReadOnlyIdempotent == [][C32_Step]_vars

\* A lookup of an identity that has no map row has answered NotFound and
\* left no cache entry, while another identity is bound and cached.
C32_NotFoundBesideBound ==
    /\ out.op = "lookup" /\ out.err = "NotFound"
    /\ SelectMap(out.ext, "jira") = {}
    /\ connIdCache[<<"jira", out.ext>>] = 0
    /\ \E ext \in ExternalIds \ {out.ext} :
          /\ SelectMap(ext, "jira") # {}
          /\ connIdCache[<<"jira", ext>>] # 0

\* C33: every callback request ends, with a response sent, in exactly one
\* of the terminal states CODE_ISSUED (200 with a handoff code) or FAILED
\* (an error status, no code), whatever the provider's token endpoint does.
\* Its states are passed in the order CALLBACK_RECEIVED (at the exchange),
\* TOKENS_EXCHANGED (at the commit and after it), CODE_ISSUED; FAILED may
\* follow any of them; the step that ends the request sends its one
\* response and leaves nothing of the request behind, and every request
\* that was received does end.
C33_Step ==
    /\ (Answered("callback") /\ out' # out) =>
          /\ out'.status = 400 /\ out'.err # "none" /\ out'.code = 0
    /\ \A r \in Reqs :
          LET q == req[r]
              p == req'[r]
          IN  /\ (Free(r) /\ p # q /\ p.op = "callback") =>
                    /\ p.pc = "exchange" /\ out' = NoOut
                    /\ stateCache[p.nonce] # Absent
              /\ (q.op = "callback" /\ p # q /\ p # Idle) =>
                    /\ p.op = "callback" /\ out' = NoOut
                    /\ <<q.pc, p.pc>> \in {<<"exchange", "commit">>,
                                           <<"commit", "post">>}
              /\ (q.op = "callback" /\ p = Idle) =>
                    /\ out'.op = "callback"
                    /\ IF q.pc = "post"
                          THEN /\ out'.status = 200 /\ out'.err = "none"
                               /\ out'.code # 0
                          ELSE /\ out'.status \in {400, 500}
                               /\ out'.err # "none" /\ out'.code = 0
C34_Step ==
    \A r \in Reqs :
        /\ (Free(r) /\ req'[r].op = "callback") =>
              UNCHANGED <<dbVars, cacheVars, nextUUID, issued, consumed>>
        /\ (At(r, "callback", "exchange") /\ req'[r] = Idle) =>
              /\ out'.op = "callback"
              /\ out'.status = 400 /\ out'.err = "TokenExchangeFailed"
              /\ out'.code = 0 /\ out'.conn = 0
              /\ UNCHANGED <<dbVars, cacheVars, nextUUID, issued, consumed>>
C34_ExchangeFailureChangesNothing == [][C34_Step]_vars

\* A re-authorization has just failed at the exchange: the state it came
\* under is still there and the connection of the identity holds the grant
\* it held.
C34_FailedReauthorization ==
    /\ out.op = "callback" /\ out.err = "TokenExchangeFailed"
    /\ stateCache[out.nonce] # Absent
    /\ stateCache[out.nonce].external_id = out.ext
    /\ \E m \in SelectMap(out.ext, "jira") :
          \E c \in SelectConnection(m.connectionId) : c.refreshToken = issued
    /\ \A c \in Codes : codeCache[c] # NoBody => codeCache[c].refresh_token = issued

\* C35: select-project changes only the selected project of the
\* connection's JiraConnection row and the cache projection of that row.
\* Every Connection row, ExternalMap row and ownership row stays as it was;
\* of the detail rows only the connection's may change, and only in its
\* selected project, keeping its site id; of the detail cache only the
\* connection's entry may change, to the row's site and the new project; and
\* when the connection has no detail row, or the request fails for any
\* other reason, no table and no detail cache entry is written.
C35_Step ==
    Answered("select") =>
        /\ UNCHANGED <<connection, connectionExternalMap, projectConnectionMap,
                       stateCache, detailsCache, accessTokenCache, codeCache,
                       nextUUID, issued>>
        /\ IF out'.op = "select" /\ out'.status = 200
              THEN /\ SelectJira(out'.conn) # {}
                   /\ MapRow(out'.ext, "jira", out'.conn) \in connectionExternalMap
                   /\ \A j \in jiraConnection :
                         IF j.connectionId = out'.conn
                            THEN [j EXCEPT !.selectedJiraProjectId = "proj-1"]
                                    \in jiraConnection'
                            ELSE j \in jiraConnection'
                   /\ Cardinality(jiraConnection') = Cardinality(jiraConnection)
                   /\ \A c \in ConnIds :
                         jiraCache'[c] # jiraCache[c] =>
                            /\ c = out'.conn
                            /\ \E j \in jiraConnection' :
                                  /\ j.connectionId = c
                                  /\ jiraCache'[c] = JiraDetails(j.jiraSiteId,
                                                        j.selectedJiraProjectId)
              ELSE UNCHANGED <<jiraConnection, jiraCache>>
C36_StatedStep ==
    (Answered("status") /\ out'.status = 200) =>
        /\ UNCHANGED dbVars
        /\ IF SelectConnection(out'.conn) = {}
              THEN ~out'.data.exists
              ELSE /\ out'.data.exists
                   /\ out'.data.isInvalid <=>
                         \E c \in SelectConnection(out'.conn) :
                             c.invalidRefreshToken \/ c.expiresAt < now
C36_Stated == [][C36_StatedStep]_vars

\* C36, amended: check-status reports on the connection detail it loads,
\* which is the cached connection-details entry when there is one and the
\* stored row otherwise.  For an authorized caller and a mapped identity it
\* writes no table, reports exists = false when it finds no detail, and
\* otherwise exists = true, the detail's expiry, and isInvalid = true exactly
\* when the detail's invalid_refresh_token is set or its expires_at has
\* passed; that is, with the access-token cache empty, exactly when a
\* get-access-token for the identity arriving at the same moment can only
\* fail with NeedsReauthorization, the provider not contacted.
C36_Step ==
    \A ext \in ExternalIds :
        LET id == getConnectionID(ext, "jira")
            d == getConnectionDetails(id)
            turnedDown ==
                ENABLED (/\ tokenLoad(1)
                         /\ out'.ext = ext /\ out'.prov = "jira"
                         /\ out'.err = "NeedsReauthorization")
            goesOn ==
                ENABLED (/\ tokenLoad(1)
                         /\ req'[1].ext = ext /\ req'[1].pc = "refresh")
        IN  (Answered("status") /\ out'.status = 200 /\ out'.ext = ext) =>
                /\ UNCHANGED dbVars
                /\ out'.conn = id
                /\ IF d = NoRow
                      THEN out'.data = ConnectionData(FALSE, FALSE, 0, 0)
                      ELSE /\ out'.data.exists
                           /\ out'.data.expiresAt = d.expiresAt
                           /\ out'.data.isInvalid <=>
                                 (d.invalidRefreshToken \/ d.expiresAt < now)
                           /\ accessTokenCache[id] = 0 =>
                                 /\ out'.data.isInvalid <=> turnedDown
                                 /\ out'.data.isInvalid <=> ~goesOn
C36_StatusMatchesBroker == [][C36_Step]_vars

\* check-status has reported a connection valid from a cached detail while
\* the stored row is marked invalid.
C36_ValidFromStaleDetail ==
    /\ out.op = "status" /\ out.status = 200
    /\ out.data.exists /\ ~out.data.isInvalid
    /\ detailsCache[out.conn] # NoDetails
    /\ ~ParseCachedDetails(detailsCache[out.conn]).invalidRefreshToken
    /\ \E c \in SelectConnection(out.conn) : c.invalidRefreshToken

\* C37: the access token a successful refresh caches gets a TTL of the
\* lifetime the provider reported minus 300 seconds; the caller is told the
\* same value as the token's remaining lifetime; and an access token is
\* cached with a positive TTL only: when the provider reports 300 seconds
\* or less, the token is returned and nothing is cached.
C37_Step ==
    \A r \in Reqs :
        LET q == req[r]
        IN  /\ (At(r, "token", "refresh") /\ out'.grant.status = 200) =>
                  /\ out'.ttl = req'[r].ttl
                  /\ out'.ttl + 300 \in ExpiresInValues
            /\ (At(r, "token", "persist") /\ req'[r] # q) =>
                  /\ \A c \in ConnIds \ {q.conn} :
                        /\ accessTokenCache'[c] = accessTokenCache[c]
                        /\ accessTokenTTL'[c] = accessTokenTTL[c]
                  /\ \/ /\ accessTokenCache'[q.conn] = accessTokenCache[q.conn]
                        /\ accessTokenTTL'[q.conn] = accessTokenTTL[q.conn]
                     \/ /\ q.ttl > 0
                        /\ accessTokenCache'[q.conn] = q.acc
                        /\ accessTokenTTL'[q.conn] = q.ttl
C37_PositiveTTL ==
    \A c \in ConnIds :
        IF accessTokenCache[c] = 0 THEN accessTokenTTL[c] = 0
        ELSE /\ accessTokenTTL[c] > 0
             /\ accessTokenTTL[c] + 300 \in ExpiresInValues
C37_CachedWithSkewedTTL == [][C37_Step]_vars /\ []C37_PositiveTTL

\* A refresh for which the provider reported a lifetime under 300 seconds
\* has persisted its refresh token; the caller was told a lifetime that is
\* not positive and no access token is cached.
C37_ShortLivedNotCached ==
    \E r \in Reqs :
        /\ At(r, "token", "cache") /\ req[r].grant.status = 200
        /\ req[r].ttl <= 0
        /\ accessTokenCache[req[r].conn] = 0
        /\ accessTokenTTL[req[r].conn] = 0
        /\ \E c \in SelectConnection(req[r].conn) : c.refreshToken = req[r].tok

====
